---- MODULE Spec2Model ----
(***************************************************************************)
(* Trading journal (src/src/App.js, src/unnamed/part_000): the analytics   *)
(* pipeline (range resolver, filter pipeline, metrics, daily series) and   *)
(* the handlers that drive it, as a state machine.                         *)
(*                                                                         *)
(* Representation                                                          *)
(*   - a JS Date at local midnight is its day number (days since           *)
(*     1970-01-01); `null` is the absent Date;                             *)
(*   - a date string "YYYY-MM-DD" is the tuple <<y, m, d>>, the empty      *)
(*     string is <<>>; a time string "HH:MM" is <<h, m>>, empty is <<>>;   *)
(*   - riskReward and profitLoss are integers; ratios are exact rationals  *)
(*     (numerator, denominator) until toFixed formats them;                *)
(*   - a JS value that is either a string or a number (a metrics field)    *)
(*     is a record [t, s, n].                                              *)
(* Three variants of the engine exist in the sources: the date-range       *)
(* variant (src/src/App.js 222-1912), the period variant                   *)
(* (src/unnamed/part_000) and the earlier variant (src/src/App.js 1918-).  *)
(* Definitions of the two older variants carry the suffixes Period and     *)
(* Earlier.                                                                *)
(***************************************************************************)
EXTENDS Integers, Sequences, FiniteSets, TLC

VARIABLES
    now,             \* the wall clock, as the day number of new Date()
    mountDay,        \* the day App mounted: useMemo(..., []) values keep it
    quickRangePresets, \* useMemo quickRangePresets: label -> its getRange()
    trades,          \* useState trades
    filters,         \* useState filters {timeRange, dayOfWeek, instrument}
    dateRange,       \* useState dateRange {start, end}
    rangeSelection,  \* useState rangeSelection {start, end}
    rangePickerOpen, \* useState rangePickerOpen
    rangeMonth,      \* useState rangeMonth (first day of a month)
    selectedPeriod,  \* period variant: useState selectedPeriod
    search,          \* period variant: filters.search
    variant,         \* which of the three App components is running
    showAddForm,     \* useState showAddForm
    editingTrade,    \* useState editingTrade: <<>> for null, else <<trade>>
    formData,        \* useState formData
    selectedMonth,   \* useState selectedMonth (first day of a month)
    monthOptions,    \* useMemo monthOptions: built when trades is set
    dateNow          \* what Date.now() returns, in milliseconds since the mount

\* The state of the trade form, of the calendar and of the clock behind ids.
journalVars == <<showAddForm, editingTrade, formData, selectedMonth, monthOptions, dateNow>>

vars == <<now, mountDay, quickRangePresets, trades, filters, dateRange, rangeSelection,
          rangePickerOpen, rangeMonth, selectedPeriod, search, variant, journalVars>>

-----------------------------------------------------------------------------
(* JS Date arithmetic on day numbers (proleptic Gregorian calendar).        *)

null == -1

\* Days since 1970-01-01 of the civil date c = <<y, m, d>> (m in 1..12).
\* A function, so that an application evaluates its argument once.
DaysOf ==
    [ c \in Int \X Int \X Int |->
        LET yy  == IF c[2] <= 2 THEN c[1] - 1 ELSE c[1]
            era == yy \div 400
            yoe == yy - era * 400
            mp  == IF c[2] > 2 THEN c[2] - 3 ELSE c[2] + 9
            doy == (153 * mp + 2) \div 5 + c[3] - 1
            doe == yoe * 365 + yoe \div 4 - yoe \div 100 + doy
        IN  era * 146097 + doe - 719468 ]

DaysFromCivil(y, m, d) == DaysOf[<<y, m, d>>]

\* The civil date <<y, m, d>> of a day number.
CivilOf ==
    [ z0 \in Int |->
        LET z   == z0 + 719468
            era == z \div 146097
            doe == z - era * 146097
            yoe == (doe - doe \div 1460 + doe \div 36524 - doe \div 146096) \div 365
            doy == doe - (365 * yoe + yoe \div 4 - yoe \div 100)
            mp  == (5 * doy + 2) \div 153
            d   == doy - (153 * mp + 2) \div 5 + 1
            m   == IF mp < 10 THEN mp + 3 ELSE mp - 9
            y   == yoe + era * 400 + (IF m <= 2 THEN 1 ELSE 0)
        IN  <<y, m, d>> ]

CivilFromDays(z0) == CivilOf[z0]

\* new Date(year, monthIndex, day): monthIndex and day outside their usual
\* ranges roll over into the neighbouring months and years.
NewDate(year, monthIndex, day) ==
    DaysFromCivil(year + monthIndex \div 12, (monthIndex % 12) + 1, 1) + (day - 1)

getFullYear(date) == CivilFromDays(date)[1]
getMonth(date)    == CivilFromDays(date)[2] - 1
getDate(date)     == CivilFromDays(date)[3]
\* Sunday = 0 ... Saturday = 6; 1970-01-01 was a Thursday.
getDay(date)      == (date + 4) % 7

\* date.setDate(date.getDate() + k): k days later, rolling over months.
AddDays(date, k) == date + k

\* startOfDay drops the time of day, which a day number does not carry.
startOfDay(date) == date

parseISODate(value) ==
    IF value = <<>> THEN null ELSE NewDate(value[1], value[2] - 1, value[3])

formatDateKey(date) == CivilFromDays(date)

\* Mutant of clampToToday: the date is passed through unclamped.
BadClampToToday(date) == date

\* clampToToday reads the clock at the call.
clampToToday(date) ==
    IF date = null THEN null
    ELSE LET today == startOfDay(now) IN IF date > today THEN today ELSE date

-----------------------------------------------------------------------------
(* Range resolver: the quick presets, the default range.                    *)

Range(start, end) == [start |-> start, end |-> end]

QuickLabels == {"Today", "This Week", "This Month", "Last 30 Days",
                "Last Month", "This Quarter", "YTD", "All Time"}

startOfMonth(date) == NewDate(getFullYear(date), getMonth(date), 1)
endOfMonth(date)   == NewDate(getFullYear(date), getMonth(date) + 1, 0)
startOfQuarter(date) ==
    NewDate(getFullYear(date), (getMonth(date) \div 3) * 3, 1)
endOfQuarter(date) ==
    NewDate(getFullYear(startOfQuarter(date)), getMonth(startOfQuarter(date)) + 3, 0)

\* getQuickRanges() is evaluated once, at mount (useMemo with no
\* dependencies): its `today` is the day of the mount, whatever the clock
\* says when a preset is clicked.  getQuickRanges(label) is the range the
\* getRange of the preset `label` returns.
getQuickRanges(label) ==
    LET today       == startOfDay(mountDay)
        startOfWeek == AddDays(today, 0 - getDay(today))
        endOfWeek   == AddDays(startOfWeek, 6)
        reference   == NewDate(getFullYear(today), getMonth(today) - 1, 1)
    IN  CASE label = "Today"        -> Range(today, today)
          [] label = "This Week"    -> Range(startOfWeek, endOfWeek)
          [] label = "This Month"   -> Range(startOfMonth(today), endOfMonth(today))
          [] label = "Last 30 Days" -> Range(AddDays(today, -29), today)
          [] label = "Last Month"   -> Range(startOfMonth(reference), endOfMonth(reference))
          [] label = "This Quarter" -> Range(startOfQuarter(today), endOfQuarter(today))
          [] label = "YTD"          -> Range(NewDate(getFullYear(today), 0, 1), today)
          [] OTHER                  -> Range(null, null)

\* defaultRange is memoized at mount too.
defaultRange ==
    LET today == startOfDay(mountDay)
    IN  Range(AddDays(today, -29), today)

\* The first day of the month the range picker shows for an anchor date.
MonthOf(anchor) == NewDate(getFullYear(anchor), getMonth(anchor), 1)

MonthIndex(date) == getFullYear(date) * 12 + getMonth(date)

\* generateCalendarMatrix(baseDate): the 42 days of the six weeks that
\* start on the Sunday on or before the first of the month.
generateCalendarMatrix(baseDate) ==
    LET start       == NewDate(getFullYear(baseDate), getMonth(baseDate), 1)
        startDay    == getDay(start)
        matrixStart == NewDate(getFullYear(start), getMonth(start), 1 - startDay)
    IN  { AddDays(first, index) : first \in {matrixStart}, index \in 0..41 }

rangeMonthNext == NewDate(getFullYear(rangeMonth), getMonth(rangeMonth) + 1, 1)

-----------------------------------------------------------------------------
(* JS values: numbers, and the strings Number.prototype.toFixed makes.      *)
(* A string is the sequence of its characters.                              *)

JSString(s) == [t |-> "string", s |-> s, n |-> 0]
JSNumber(n) == [t |-> "number", s |-> <<>>, n |-> n]
JSUndefined == [t |-> "undefined", s |-> <<>>, n |-> 0]

Digit(d) ==
    CASE d = 0 -> "0" [] d = 1 -> "1" [] d = 2 -> "2" [] d = 3 -> "3"
      [] d = 4 -> "4" [] d = 5 -> "5" [] d = 6 -> "6" [] d = 7 -> "7"
      [] d = 8 -> "8" [] d = 9 -> "9"

RECURSIVE NatToString(_)
NatToString(n) ==
    IF n < 10 THEN <<Digit(n)>> ELSE NatToString(n \div 10) \o <<Digit(n % 10)>>

RECURSIVE Pow10(_)
Pow10(f) == IF f = 0 THEN 1 ELSE 10 * Pow10(f - 1)

RECURSIVE PadLeft(_, _)
PadLeft(str, width) == IF Len(str) >= width THEN str ELSE PadLeft(<<"0">> \o str, width)

\* (num / den).toFixed(f) for den > 0: the sign, then the nearest multiple
\* of 10^-f of the absolute value (the larger one on a tie), with exactly f
\* decimals.
toFixed(num, den, f) ==
    LET a      == IF num < 0 THEN 0 - num ELSE num
        scaled == (2 * a * Pow10(f) + den) \div (2 * den)
        whole  == scaled \div Pow10(f)
        frac   == scaled % Pow10(f)
    IN  (IF num < 0 THEN <<"-">> ELSE <<>>)
        \o NatToString(whole) \o <<".">> \o PadLeft(NatToString(frac), f)

\* parseFloat of a string made by toFixed(1): the number it denotes.  A
\* number with a non-zero tenths digit carries it in the field `tenths`.
DigitValue(c) ==
    CASE c = "0" -> 0 [] c = "1" -> 1 [] c = "2" -> 2 [] c = "3" -> 3 [] c = "4" -> 4
      [] c = "5" -> 5 [] c = "6" -> 6 [] c = "7" -> 7 [] c = "8" -> 8 [] c = "9" -> 9
      [] OTHER -> -1

RECURSIVE DigitsValue(_)
DigitsValue(digits) ==
    IF digits = <<>> THEN 0
    ELSE 10 * DigitsValue(SubSeq(digits, 1, Len(digits) - 1))
         + DigitValue(digits[Len(digits)])

JSNaN == [t |-> "NaN", s |-> <<>>, n |-> 0]

\* The length of the longest prefix of str made of digits.
RECURSIVE DigitPrefix(_)
DigitPrefix(str) ==
    IF str = <<>> \/ DigitValue(Head(str)) < 0 THEN 0 ELSE 1 + DigitPrefix(Tail(str))

\* parseFloat reads an optional sign and the longest numeric prefix: NaN
\* when there is none, an integer when the digits end the number, and the
\* number with its tenths digit for a string made by toFixed(1).
parseFloat(str) ==
    LET negative == str # <<>> /\ Head(str) = "-"
        body     == IF negative THEN Tail(str) ELSE str
        length   == DigitPrefix(body)
        whole    == DigitsValue(SubSeq(body, 1, length))
        signed   == IF negative THEN 0 - whole ELSE whole
        tenths   == IF Len(body) >= length + 2 /\ body[length + 1] = "."
                    THEN DigitValue(body[length + 2]) ELSE 0
    IN  IF length = 0 THEN JSNaN
        ELSE IF tenths <= 0 THEN JSNumber(signed)
        ELSE [t |-> "number", s |-> <<>>, n |-> signed, tenths |-> tenths]

\* Number(str): 0 for the empty string, NaN unless the whole string is a
\* numeral.
Number(str) ==
    LET negative == str # <<>> /\ Head(str) = "-"
        body     == IF negative THEN Tail(str) ELSE str
    IN  IF str = <<>> THEN JSNumber(0)
        ELSE IF body = <<>> \/ DigitPrefix(body) < Len(body) THEN JSNaN
        ELSE JSNumber(IF negative THEN 0 - DigitsValue(body) ELSE DigitsValue(body))

\* Number.prototype.toString of an integer.
NumberToString(n) ==
    IF n < 0 THEN <<"-">> \o NatToString(0 - n) ELSE NatToString(n)

\* The sentinel string of an infinite profit factor (U+221E in the source).
Infinite == <<"INF">>

RECURSIVE SumInts(_)
SumInts(seq) == IF seq = <<>> THEN 0 ELSE Head(seq) + SumInts(Tail(seq))

Abs(x) == IF x < 0 THEN 0 - x ELSE x

-----------------------------------------------------------------------------
(* Filter pipeline of the date-range variant.                               *)

getTimeRange(time) ==
    IF time = <<>> THEN "unknown"
    ELSE LET totalMinutes == time[1] * 60 + time[2]
         IN  CASE totalMinutes >= 570 /\ totalMinutes < 585 -> "9:30-9:45"
               [] totalMinutes >= 585 /\ totalMinutes < 600 -> "9:45-10:00"
               [] totalMinutes >= 600 /\ totalMinutes < 615 -> "10:00-10:15"
               [] totalMinutes >= 615 /\ totalMinutes < 630 -> "10:15-10:30"
               [] OTHER -> "10:30+"

days == <<"Sunday", "Monday", "Tuesday", "Wednesday", "Thursday", "Friday", "Saturday">>

getDayOfWeek(dateStr) ==
    LET date == parseISODate(dateStr)
    IN  IF date # null THEN days[getDay(date) + 1] ELSE "Unknown"

\* Mutant of InRangeFilter: the end of the range is exclusive.
BadInRangeFilter(trade) ==
    LET tradeDate == parseISODate(trade.date)
    IN  IF tradeDate = null THEN FALSE
        ELSE IF dateRange.start # null /\ tradeDate < dateRange.start THEN FALSE
        ELSE IF dateRange.end # null /\ tradeDate >= dateRange.end THEN FALSE
        ELSE TRUE

InRangeFilter(trade) ==
    LET tradeDate == parseISODate(trade.date)
    IN  IF tradeDate = null THEN FALSE
        ELSE IF dateRange.start # null /\ tradeDate < dateRange.start THEN FALSE
        ELSE IF dateRange.end # null /\ tradeDate > dateRange.end THEN FALSE
        ELSE TRUE

rangeFilteredTrades == SelectSeq(trades, InRangeFilter)

PassesFilters(trade) ==
    LET timeRange == getTimeRange(trade.time)
        dayOfWeek == getDayOfWeek(trade.date)
    IN  IF filters.timeRange # "all" /\ timeRange # filters.timeRange THEN FALSE
        ELSE IF filters.dayOfWeek # "all" /\ dayOfWeek # filters.dayOfWeek THEN FALSE
        ELSE IF filters.instrument # "all" /\ trade.instrument # filters.instrument THEN FALSE
        ELSE TRUE

filteredTrades == SelectSeq(rangeFilteredTrades, PassesFilters)

-----------------------------------------------------------------------------
(* Metrics aggregator.                                                      *)

IsWin(trade)  == trade.result = "win"
IsLoss(trade) == trade.result = "loss"

RiskRewards(seq)  == [i \in 1..Len(seq) |-> seq[i].riskReward]
\* trade.profitLoss || 0: a record without the field contributes 0.
ProfitLosses(seq) ==
    [i \in 1..Len(seq) |->
        IF "profitLoss" \in DOMAIN seq[i] THEN seq[i].profitLoss ELSE 0]

totalWinRR(set)  == SumInts(RiskRewards(SelectSeq(set, IsWin)))
totalLossRR(set) == Abs(SumInts(RiskRewards(SelectSeq(set, IsLoss))))

Zero2 == <<"0", ".", "0", "0">>

\* Mutant of winRateOf: the ratio is not scaled to a percentage.
BadWinRateOf(wins, total) ==
    IF total > 0 THEN JSString(toFixed(wins, total, 2)) ELSE JSString(Zero2)

winRateOf(wins, total) ==
    IF total > 0 THEN JSString(toFixed(wins * 100, total, 2)) ELSE JSString(Zero2)

profitFactorOf(winRR, lossRR) ==
    IF lossRR > 0 THEN JSString(toFixed(winRR, lossRR, 2))
    ELSE IF winRR > 0 THEN JSString(Infinite)
    ELSE JSString(Zero2)

\* Mutant of avgRROf: the mean is rounded to one decimal.
BadAvgRROf(sumRR, total) ==
    IF total > 0 THEN JSString(toFixed(sumRR, total, 1)) ELSE JSString(Zero2)

avgRROf(sumRR, total) ==
    IF total > 0 THEN JSString(toFixed(sumRR, total, 2)) ELSE JSString(Zero2)

\* Mutant of netPnLOf: only the winning trades are summed.
BadNetPnLOf(set) == JSNumber(SumInts(ProfitLosses(SelectSeq(set, IsWin))))

netPnLOf(set) == JSNumber(SumInts(ProfitLosses(set)))

\* metrics of the date-range variant (and, line for line, of the period
\* variant), over a filtered set.
metricsOf(set) ==
    LET wins   == Len(SelectSeq(set, IsWin))
        losses == Len(SelectSeq(set, IsLoss))
        total  == Len(set)
    IN  [ wins         |-> wins,
          losses       |-> losses,
          total        |-> total,
          winRate      |-> winRateOf(wins, total),
          profitFactor |-> profitFactorOf(totalWinRR(set), totalLossRR(set)),
          avgRR        |-> avgRROf(SumInts(RiskRewards(set)), total),
          netPnL       |-> netPnLOf(set) ]

metrics == metricsOf(filteredTrades)

-----------------------------------------------------------------------------
(* Time-series builder of the date-range variant.                           *)

\* Mutant of dailyTotalsOf: a later trade of a day replaces the day's
\* total instead of adding to it.
RECURSIVE BadDailyTotalsOf(_)
BadDailyTotalsOf(set) ==
    IF set = <<>> THEN [key \in {} |-> 0]
    ELSE LET acc   == BadDailyTotalsOf(SubSeq(set, 1, Len(set) - 1))
             trade == set[Len(set)]
         IN  IF trade.date = <<>> THEN acc
             ELSE [key \in DOMAIN acc \cup {trade.date} |->
                      IF key = trade.date THEN trade.profitLoss ELSE acc[key]]

\* The reduce of dailyPnLData: date key -> summed profitLoss, undated
\* trades skipped.
RECURSIVE dailyTotalsOf(_)
dailyTotalsOf(set) ==
    IF set = <<>> THEN [key \in {} |-> 0]
    ELSE LET acc   == dailyTotalsOf(SubSeq(set, 1, Len(set) - 1))
             trade == set[Len(set)]
         IN  IF trade.date = <<>> THEN acc
             ELSE [key \in DOMAIN acc \cup {trade.date} |->
                      (IF key \in DOMAIN acc THEN acc[key] ELSE 0)
                      + (IF key = trade.date THEN trade.profitLoss ELSE 0)]

\* Array.prototype.sort on zero-padded "YYYY-MM-DD" keys: year, then
\* month, then day.
KeyLess(a, b) ==
    \/ a[1] < b[1]
    \/ a[1] = b[1] /\ a[2] < b[2]
    \/ a[1] = b[1] /\ a[2] = b[2] /\ a[3] < b[3]

FirstKey(keys) == CHOOSE k \in keys : \A j \in keys : j = k \/ KeyLess(k, j)
LastKey(keys)  == CHOOSE k \in keys : \A j \in keys : j = k \/ KeyLess(j, k)

\* toLocaleDateString('en-US', {month: 'short', day: 'numeric'}): the month
\* (1..12, shown abbreviated) and the day number.
ShortLabel(date) == <<CivilFromDays(date)[2], CivilFromDays(date)[3]>>

\* Mutant of WalkDays: the walk stops before endDate.
BadWalkDays(cursor, endDate, dailyTotals) ==
    [ i \in 1..(endDate - cursor) |->
        LET day == AddDays(cursor, i - 1)
            key == formatDateKey(day)
        IN  [ date  |-> key,
              pnl   |-> IF key \in DOMAIN dailyTotals THEN dailyTotals[key] ELSE 0,
              label |-> ShortLabel(day) ] ]

\* The while loop of dailyPnLData: the i-th pass pushes the entry of the
\* day i - 1 days after the first cursor, up to endDate inclusive.
WalkDays(cursor, endDate, dailyTotals) ==
    [ i \in 1..(endDate - cursor + 1) |->
        LET day == AddDays(cursor, i - 1)
            key == formatDateKey(day)
        IN  [ date  |-> key,
              pnl   |-> IF key \in DOMAIN dailyTotals THEN dailyTotals[key] ELSE 0,
              label |-> ShortLabel(day) ] ]

\* Mutant of seriesBounds: the end of the walk is not clamped to today.
BadSeriesBounds ==
    LET dailyTotals  == dailyTotalsOf(filteredTrades)
        sortedKeys   == DOMAIN dailyTotals
        today        == startOfDay(now)
        defaultStart == IF dateRange.start # null THEN startOfDay(dateRange.start)
                        ELSE IF sortedKeys # {}
                             THEN startOfDay(parseISODate(FirstKey(sortedKeys)))
                             ELSE startOfDay(now)
        defaultEnd   == IF dateRange.end # null THEN startOfDay(dateRange.end)
                        ELSE IF sortedKeys # {}
                             THEN startOfDay(parseISODate(LastKey(sortedKeys)))
                             ELSE defaultStart
        cursor       == IF defaultStart > today THEN today ELSE defaultStart
        endDate      == IF defaultEnd < cursor THEN cursor ELSE defaultEnd
    IN  [cursor |-> cursor, endDate |-> endDate]

seriesBounds ==
    LET dailyTotals  == dailyTotalsOf(filteredTrades)
        sortedKeys   == DOMAIN dailyTotals
        today        == startOfDay(now)
        defaultStart == IF dateRange.start # null THEN startOfDay(dateRange.start)
                        ELSE IF sortedKeys # {}
                             THEN startOfDay(parseISODate(FirstKey(sortedKeys)))
                             ELSE startOfDay(now)
        defaultEnd   == IF dateRange.end # null THEN startOfDay(dateRange.end)
                        ELSE IF sortedKeys # {}
                             THEN startOfDay(parseISODate(LastKey(sortedKeys)))
                             ELSE defaultStart
        cursor       == IF defaultStart > today THEN today ELSE defaultStart
        endDate0     == IF defaultEnd > today THEN today ELSE defaultEnd
        endDate      == IF endDate0 < cursor THEN cursor ELSE endDate0
    IN  [cursor |-> cursor, endDate |-> endDate]

\* Mutant of dailyPnLData: the totals are taken before the three selects.
BadDailyPnLData ==
    WalkDays(seriesBounds.cursor, seriesBounds.endDate, dailyTotalsOf(rangeFilteredTrades))

dailyPnLData ==
    WalkDays(seriesBounds.cursor, seriesBounds.endDate, dailyTotalsOf(filteredTrades))

\* Mutant of Cumulate: the running total is not carried to the next entry.
BadCumulate(data, cumulative) ==
    [ i \in 1..Len(data) |->
        [date |-> data[i].date, pnl |-> data[i].pnl, label |-> data[i].label,
         cumulative |-> cumulative + data[i].pnl] ]

RECURSIVE Cumulate(_, _)
Cumulate(data, cumulative) ==
    IF data = <<>> THEN <<>>
    ELSE LET entry == Head(data)
             next  == cumulative + entry.pnl
         IN  << [date |-> entry.date, pnl |-> entry.pnl, label |-> entry.label,
                 cumulative |-> next] >>
             \o Cumulate(Tail(data), next)

cumulativePnLData == Cumulate(dailyPnLData, 0)

-----------------------------------------------------------------------------
(* Breakdowns of the date-range variant (the period variant's are the same  *)
(* line for line, over its own filtered set).                               *)

ranges == <<"9:30-9:45", "9:45-10:00", "10:00-10:15", "10:15-10:30", "10:30+">>

weekdays == <<"Monday", "Tuesday", "Wednesday", "Thursday", "Friday">>

Zero1 == <<"0", ".", "0">>

groupWinRate(wins, total) ==
    IF total > 0 THEN parseFloat(toFixed(wins * 100, total, 1)) ELSE JSNumber(0)

timeRangeDataOf(set) ==
    [ k \in 1..Len(ranges) |->
        LET InRange(trade) == getTimeRange(trade.time) = ranges[k]
            rangeTrades    == SelectSeq(set, InRange)
            wins           == Len(SelectSeq(rangeTrades, IsWin))
            total          == Len(rangeTrades)
        IN  [range |-> ranges[k], winRate |-> groupWinRate(wins, total), trades |-> total] ]

timeRangeData == timeRangeDataOf(filteredTrades)

dayDataOf(set) ==
    [ k \in 1..Len(weekdays) |->
        LET OnDay(trade) == getDayOfWeek(trade.date) = weekdays[k]
            dayTrades    == SelectSeq(set, OnDay)
            wins         == Len(SelectSeq(dayTrades, IsWin))
            total        == Len(dayTrades)
        IN  [day |-> weekdays[k], winRate |-> groupWinRate(wins, total), trades |-> total] ]

dayData == dayDataOf(filteredTrades)

\* Array.from(new Set(trades.map(trade => trade.instrument))): the distinct
\* instruments in the order of their first trade.
RECURSIVE instrumentsOf(_)
instrumentsOf(set) ==
    IF set = <<>> THEN <<>>
    ELSE LET front      == instrumentsOf(SubSeq(set, 1, Len(set) - 1))
             instrument == set[Len(set)].instrument
         IN  IF \E k \in 1..Len(front) : front[k] = instrument THEN front
             ELSE Append(front, instrument)

instrumentDataOf(all, set) ==
    LET instruments == instrumentsOf(all)
    IN  [ k \in 1..Len(instruments) |->
            LET OfInstrument(trade) == trade.instrument = instruments[k]
                instTrades == SelectSeq(set, OfInstrument)
                wins       == Len(SelectSeq(instTrades, IsWin))
                total      == Len(instTrades)
            IN  [ instrument |-> instruments[k],
                  wins    |-> wins,
                  losses  |-> total - wins,
                  winRate |-> IF total > 0 THEN JSString(toFixed(wins * 100, total, 1))
                              ELSE JSString(Zero1),
                  pnl     |-> SumInts(ProfitLosses(instTrades)) ] ]

instrumentData == instrumentDataOf(trades, filteredTrades)

-----------------------------------------------------------------------------
(* Calendar index: the trades of the whole collection grouped by date.      *)

\* The reduce of tradesByDate (the period variant's is the same, line for
\* line): undated trades are skipped; wins and losses count the trades of
\* either result, profitLoss adds up, trades keeps the members in order.
RECURSIVE tradesByDateOf(_)
tradesByDateOf(set) ==
    IF set = <<>> THEN [key \in {} |-> 0]
    ELSE LET acc   == tradesByDateOf(SubSeq(set, 1, Len(set) - 1))
             trade == set[Len(set)]
         IN  IF trade.date = <<>> THEN acc
             ELSE [key \in DOMAIN acc \cup {trade.date} |->
                    LET entry == IF key \in DOMAIN acc THEN acc[key]
                                 ELSE [wins |-> 0, losses |-> 0, profitLoss |-> 0,
                                       trades |-> <<>>]
                    IN  IF key # trade.date THEN entry
                        ELSE [ wins   |-> entry.wins + (IF trade.result = "win" THEN 1 ELSE 0),
                               losses |-> entry.losses
                                          + (IF trade.result = "loss" THEN 1 ELSE 0),
                               profitLoss |-> entry.profitLoss + trade.profitLoss,
                               trades |-> Append(entry.trades, trade) ]]

\* Mutant of tradesByDate: the index is built from the filtered set.
BadTradesByDate == tradesByDateOf(filteredTrades)

tradesByDate == tradesByDateOf(trades)

-----------------------------------------------------------------------------
(* The period variant (src/unnamed/part_000).                               *)

Periods == {"mtd", "3m", "6m", "ytd", "all"}

getPeriodStartDate(period) ==
    CASE period = "mtd" -> NewDate(getFullYear(now), getMonth(now), 1)
      [] period = "3m"  -> NewDate(getFullYear(now), getMonth(now) - 2, 1)
      [] period = "6m"  -> NewDate(getFullYear(now), getMonth(now) - 5, 1)
      [] period = "ytd" -> NewDate(getFullYear(now), 0, 1)
      [] OTHER          -> null

InPeriodFilter(trade) ==
    LET startDate == getPeriodStartDate(selectedPeriod)
        tradeDate == parseISODate(trade.date)
    IN  tradeDate # null /\ tradeDate >= startDate

periodFilteredTrades ==
    IF getPeriodStartDate(selectedPeriod) = null THEN trades
    ELSE SelectSeq(trades, InPeriodFilter)

\* trade.instrument.toLowerCase().includes(searchTerm): instruments and
\* search terms are drawn from names whose containment is tabulated here.
Includes(instrument, searchTerm) ==
    \/ searchTerm = ""
    \/ searchTerm = "nq" /\ instrument = "NQ!"
    \/ searchTerm = "es" /\ instrument = "ES1!"
    \/ searchTerm = "!"  /\ instrument \in {"NQ!", "ES1!"}

PassesFiltersPeriod(trade) ==
    IF ~PassesFilters(trade) THEN FALSE
    ELSE IF search # "" /\ ~Includes(trade.instrument, search) THEN FALSE
    ELSE TRUE

filteredTradesPeriod == SelectSeq(periodFilteredTrades, PassesFiltersPeriod)

metricsPeriod == metricsOf(filteredTradesPeriod)

timeRangeDataPeriod == timeRangeDataOf(filteredTradesPeriod)

dayDataPeriod == dayDataOf(filteredTradesPeriod)

instrumentDataPeriod == instrumentDataOf(trades, filteredTradesPeriod)

\* pnlData: one entry per date that carries a filtered trade, sorted by
\* date, with the running total.
RECURSIVE SortedEntries(_, _)
SortedEntries(keys, grouped) ==
    IF keys = {} THEN <<>>
    ELSE LET k == FirstKey(keys)
         IN  << [date |-> k, pnl |-> grouped[k], label |-> <<k[2], k[3]>>] >>
             \o SortedEntries(keys \ {k}, grouped)

pnlData ==
    LET grouped == dailyTotalsOf(filteredTradesPeriod)
    IN  Cumulate(SortedEntries(DOMAIN grouped, grouped), 0)

-----------------------------------------------------------------------------
(* The earlier variant (src/src/App.js 1918-): no date range, and numeric   *)
(* fallbacks in metrics.                                                    *)

\* getTimeRange without the guard on an absent time: "" splits into
\* [""], the minutes are NaN and every comparison fails.
getTimeRangeEarlier(time) ==
    IF time = <<>> THEN "10:30+" ELSE getTimeRange(time)

\* days[new Date(dateStr).getDay()]: the date string is read as UTC
\* midnight; the host is taken at or east of UTC, where that instant falls
\* on the same local day.  An empty string is an invalid Date, whose day
\* indexes nothing.
getDayOfWeekEarlier(dateStr) ==
    IF dateStr = <<>> THEN "undefined"
    ELSE days[getDay(DaysFromCivil(dateStr[1], dateStr[2], dateStr[3])) + 1]

PassesFiltersEarlier(trade) ==
    LET timeRange == getTimeRangeEarlier(trade.time)
        dayOfWeek == getDayOfWeekEarlier(trade.date)
    IN  IF filters.timeRange # "all" /\ timeRange # filters.timeRange THEN FALSE
        ELSE IF filters.dayOfWeek # "all" /\ dayOfWeek # filters.dayOfWeek THEN FALSE
        ELSE IF filters.instrument # "all" /\ trade.instrument # filters.instrument THEN FALSE
        ELSE TRUE

filteredTradesEarlier == SelectSeq(trades, PassesFiltersEarlier)

\* The record has no netPnL field: reading it yields undefined.
metricsEarlier ==
    LET set    == filteredTradesEarlier
        wins   == Len(SelectSeq(set, IsWin))
        losses == Len(SelectSeq(set, IsLoss))
        total  == Len(set)
        winRR  == totalWinRR(set)
        lossRR == totalLossRR(set)
    IN  [ winRate |->
              IF total > 0 THEN JSString(toFixed(wins * 100, total, 2)) ELSE JSNumber(0),
          wins   |-> wins,
          losses |-> losses,
          total  |-> total,
          profitFactor |->
              IF lossRR > 0 THEN JSString(toFixed(winRR, lossRR, 2))
              ELSE IF winRR > 0 THEN JSString(Infinite)
              ELSE JSNumber(0),
          avgRR |->
              IF total > 0 THEN JSString(toFixed(SumInts(RiskRewards(set)), total, 2))
              ELSE JSNumber(0),
          netPnL |-> JSUndefined ]

\* The breakdowns of the earlier variant read the whole collection.
timeRangeDataEarlier ==
    [ k \in 1..Len(ranges) |->
        LET InRange(t)  == getTimeRangeEarlier(t.time) = ranges[k]
            rangeTrades == SelectSeq(trades, InRange)
            wins        == Len(SelectSeq(rangeTrades, IsWin))
            total       == Len(rangeTrades)
        IN  [range |-> ranges[k], winRate |-> groupWinRate(wins, total), trades |-> total] ]

dayDataEarlier ==
    [ k \in 1..Len(weekdays) |->
        LET OnDay(t)  == getDayOfWeekEarlier(t.date) = weekdays[k]
            dayTrades == SelectSeq(trades, OnDay)
            wins      == Len(SelectSeq(dayTrades, IsWin))
            total     == Len(dayTrades)
        IN  [day |-> weekdays[k], winRate |-> groupWinRate(wins, total), trades |-> total] ]

\* A fixed list of two instruments; no pnl; a numeric 0 fallback.
instrumentsEarlier == <<"NQ!", "ES1!">>

instrumentDataEarlier ==
    [ k \in 1..Len(instrumentsEarlier) |->
        LET OfInstrument(t) == t.instrument = instrumentsEarlier[k]
            instTrades == SelectSeq(trades, OfInstrument)
            wins       == Len(SelectSeq(instTrades, IsWin))
            total      == Len(instTrades)
        IN  [ instrument |-> instrumentsEarlier[k],
              wins    |-> wins,
              losses  |-> total - wins,
              winRate |-> IF total > 0 THEN JSString(toFixed(wins * 100, total, 1))
                          ELSE JSNumber(0) ] ]

\* calendarData of the earlier variant: every trade is grouped under its
\* date string, the empty one included; an entry holds two counters, and a
\* trade that is not a win counts as a loss.
RECURSIVE calendarDataOf(_)
calendarDataOf(set) ==
    IF set = <<>> THEN [key \in {} |-> 0]
    ELSE LET grouped == calendarDataOf(SubSeq(set, 1, Len(set) - 1))
             trade   == set[Len(set)]
         IN  [key \in DOMAIN grouped \cup {trade.date} |->
                LET entry == IF key \in DOMAIN grouped THEN grouped[key]
                             ELSE [wins |-> 0, losses |-> 0]
                IN  IF key # trade.date THEN entry
                    ELSE IF trade.result = "win"
                    THEN [wins |-> entry.wins + 1, losses |-> entry.losses]
                    ELSE [wins |-> entry.wins, losses |-> entry.losses + 1]]

calendarData == calendarDataOf(trades)

-----------------------------------------------------------------------------
(* Bounds and input sets.                                                   *)

MaxTrades   == 2    \* stored trades in an initial collection
MaxTicks    == 1    \* midnights that pass after the mount
MaxMonthNav == 1    \* months the range picker is paged away from the mount month

\* The day the engine runs: Tuesday 2024-03-05.  The range machine also
\* mounts on Sunday 2024-03-31: the first day of a week and the last day
\* of a month and of a quarter.
EngineDay == DaysFromCivil(2024, 3, 5)
MountDays == {DaysFromCivil(2024, 3, 5), DaysFromCivil(2024, 3, 31)}

\* Days clicked in the range picker, relative to the mount day.
ClickOffsets == {-30, -1, 0, 1, 2}

MaxJournal  == 2    \* trades the journal holds before Add is withheld
MaxClock    == 1    \* milliseconds that pass after the mount

\* What is typed in the trade form: today's date, one time, either side,
\* one riskReward, a profitLoss with either sign.
FormDates        == { <<2024, 3, 5>> }
FormTimes        == { <<9, 44>> }
FormSides        == { "long", "short" }
Results          == { "win", "loss" }
FormRiskRewards  == { <<"2">> }
FormProfitLosses == { <<"1", "0", "0">>, <<"-", "5", "0">> }

TimeRangeChoices  == {"all", "9:30-9:45", "10:30+"}
DayOfWeekChoices  == {"all", "Tuesday"}
SearchChoices     == {"", "nq"}

Trade(id, date, time, instrument, result, riskReward, profitLoss) ==
    [ id |-> id, date |-> date, time |-> time, side |-> "long",
      instrument |-> instrument, result |-> result,
      riskReward |-> riskReward, profitLoss |-> profitLoss ]

\* Records a stored journal can hold, by position id.  Dates: none, the
\* first day of the default range (a Monday), the engine day (a Tuesday),
\* the day after it.  Times: 9:44 (first bucket), 9:00 (before the open),
\* none.  A loss at -1R, a win typed with a negative R, and losses stored
\* with -3R and 0R (the period variant stores a loss's R as typed).  One
\* record, dated the Sunday before the engine day, was saved without a
\* profitLoss.
Instruments == { "NQ!", "ES1!" }

StoredTrades(id) ==
    LET undated == <<>>
        first   == formatDateKey(EngineDay - 29)
        sunday  == formatDateKey(EngineDay - 2)
        today   == formatDateKey(EngineDay)
        future  == formatDateKey(EngineDay + 1)
    IN  { Trade(id, today,   <<9, 44>>, "NQ!",  "win",  2, 100),
          Trade(id, today,   <<9, 0>>,  "ES1!", "win",  3, 150),
          Trade(id, first,   <<9, 44>>, "NQ!",  "win",  2, 100),
          Trade(id, future,  <<9, 44>>, "ES1!", "win",  1, 40),
          Trade(id, undated, <<9, 44>>, "NQ!",  "win",  2, 70),
          Trade(id, today,   <<9, 44>>, "NQ!",  "loss", -1, -50),
          Trade(id, today,   <<9, 44>>, "NQ!",  "win",  -2, 30),
          Trade(id, first,   <<9, 0>>,  "NQ!",  "loss", -3, -90),
          Trade(id, first,   <<>>,      "ES1!", "loss", 0, 0),
          [ id |-> id, date |-> sunday, time |-> <<9, 44>>, side |-> "long",
            instrument |-> "NQ!", result |-> "win", riskReward |-> 2 ] }

RECURSIVE StoredCollections(_)
StoredCollections(n) ==
    IF n = 0 THEN { <<>> }
    ELSE LET shorter == StoredCollections(n - 1)
         IN  shorter \cup { Append(c, t) : c \in { x \in shorter : Len(x) = n - 1 },
                                            t \in StoredTrades(n) }

\* The initializer of useState trades in the date-range and period
\* variants: every parsed record is kept, its profitLoss replaced by 0
\* unless it is a number.
loadTrade(trade) ==
    [ field \in DOMAIN trade \cup {"profitLoss"} |->
        IF field = "profitLoss"
        THEN IF "profitLoss" \in DOMAIN trade THEN trade.profitLoss ELSE 0
        ELSE trade[field] ]

loadTrades(savedTrades) == [ i \in 1..Len(savedTrades) |-> loadTrade(savedTrades[i]) ]

\* The earlier variant keeps the parsed records as they are.
loadTradesEarlier(savedTrades) == savedTrades

\* buildMonthOptions(trades): the months of the calendar's select, from the
\* month of the clock back to the earlier of the month of the earliest dated
\* trade and the month eleven months before the clock's.  An option is kept
\* as its date; its key and its label are functions of the date.
\* Its three steps are functions of the dates they start from.
earliestTradeMonthOf(tradeList) ==
    LET tradeMonths == { MonthOf(parseISODate(tradeList[i].date)) :
                            i \in { j \in 1..Len(tradeList) : tradeList[j].date # <<>> } }
    IN  IF tradeMonths = {} THEN null
        ELSE CHOOSE m \in tradeMonths : \A other \in tradeMonths : m <= other

\* startPoint, from <<nowStart, earliestTradeMonth>>.
startPointOf ==
    [ from \in Int \X Int |->
        LET defaultStart == NewDate(getFullYear(from[1]), getMonth(from[1]) - 11, 1)
        IN  IF from[2] # null /\ from[2] < defaultStart THEN from[2] ELSE defaultStart ]

\* The loop `while (cursor >= startPoint)`, from <<nowStart, startPoint>>.
optionsOf ==
    [ from \in Int \X Int |->
        [ k \in 1..(MonthIndex(from[1]) - MonthIndex(from[2]) + 1) |->
            NewDate(getFullYear(from[1]), getMonth(from[1]) - (k - 1), 1) ] ]

buildMonthOptions(tradeList) ==
    optionsOf[<<MonthOf(now), startPointOf[<<MonthOf(now), earliestTradeMonthOf(tradeList)>>]>>]

\* The key of an option, which is the value of the select: year-monthIndex.
optionKey(date) == <<getFullYear(date), getMonth(date)>>

\* The initial formData, which handleAddTrade and cancelForm restore.
emptyForm ==
    [ date |-> <<>>, time |-> <<>>, side |-> "long", instrument |-> "NQ!",
      result |-> "win", riskReward |-> <<>>, profitLoss |-> <<>> ]

-----------------------------------------------------------------------------
(* State machine.                                                           *)

InitCommon ==
    /\ now = mountDay
    /\ quickRangePresets = [label \in QuickLabels |-> getQuickRanges(label)]
    /\ filters = [timeRange |-> "all", dayOfWeek |-> "all", instrument |-> "all"]
    /\ dateRange = defaultRange
    /\ rangeSelection = defaultRange
    /\ rangePickerOpen = FALSE
    /\ rangeMonth = MonthOf(defaultRange.end)
    /\ selectedPeriod = "all"
    /\ search = ""
    /\ showAddForm = FALSE
    /\ editingTrade = <<>>
    /\ formData = emptyForm
    /\ selectedMonth = NewDate(getFullYear(mountDay), getMonth(mountDay), 1)
    /\ monthOptions = buildMonthOptions(trades)
    /\ dateNow = 0

\* The clock passes midnight.
Tick ==
    /\ now - mountDay < MaxTicks
    /\ now' = now + 1
    /\ UNCHANGED <<mountDay, quickRangePresets, trades, filters, dateRange, rangeSelection,
                   rangePickerOpen, rangeMonth, selectedPeriod, search, variant, journalVars>>

\* The three filter selects.  The instrument select offers "all" and the
\* instruments of the stored trades.
InstrumentOptions == {"all"} \cup { trades[i].instrument : i \in 1..Len(trades) }

setTimeRangeFilter ==
    /\ \E value \in TimeRangeChoices :
          filters' = [filters EXCEPT !.timeRange = value]
    /\ UNCHANGED <<now, mountDay, quickRangePresets, trades, dateRange, rangeSelection,
                   rangePickerOpen, rangeMonth, selectedPeriod, search, variant, journalVars>>

setDayOfWeekFilter ==
    /\ \E value \in DayOfWeekChoices :
          filters' = [filters EXCEPT !.dayOfWeek = value]
    /\ UNCHANGED <<now, mountDay, quickRangePresets, trades, dateRange, rangeSelection,
                   rangePickerOpen, rangeMonth, selectedPeriod, search, variant, journalVars>>

setInstrumentFilter ==
    /\ \E value \in InstrumentOptions :
          filters' = [filters EXCEPT !.instrument = value]
    /\ UNCHANGED <<now, mountDay, quickRangePresets, trades, dateRange, rangeSelection,
                   rangePickerOpen, rangeMonth, selectedPeriod, search, variant, journalVars>>

\* The range button: toggles the picker; the effect on rangePickerOpen
\* then copies dateRange into the selection and pages to its month.
toggleRangePicker ==
    /\ variant = "range"
    /\ rangePickerOpen' = ~rangePickerOpen
    /\ IF rangePickerOpen'
       THEN LET anchor == IF dateRange.end # null THEN dateRange.end
                          ELSE IF dateRange.start # null THEN dateRange.start
                          ELSE startOfDay(now)
            IN  /\ rangeSelection' = dateRange
                /\ rangeMonth' = MonthOf(anchor)
       ELSE UNCHANGED <<rangeSelection, rangeMonth>>
    /\ UNCHANGED <<now, mountDay, quickRangePresets, trades, filters, dateRange, selectedPeriod,
                   search, variant, journalVars>>

\* A mousedown outside the open picker closes it.
mousedownOutside ==
    /\ variant = "range"
    /\ rangePickerOpen
    /\ rangePickerOpen' = FALSE
    /\ UNCHANGED <<now, mountDay, quickRangePresets, trades, filters, dateRange, rangeSelection,
                   rangeMonth, selectedPeriod, search, variant, journalVars>>

\* The two arrows of the picker.
pageRangeMonth ==
    /\ variant = "range"
    /\ rangePickerOpen
    /\ \E offset \in {-1, 1} :
          LET next == NewDate(getFullYear(rangeMonth), getMonth(rangeMonth) + offset, 1)
          IN  /\ Abs(MonthIndex(next) - MonthIndex(mountDay)) <= MaxMonthNav
              /\ rangeMonth' = next
    /\ UNCHANGED <<now, mountDay, quickRangePresets, trades, filters, dateRange, rangeSelection,
                   rangePickerOpen, selectedPeriod, search, variant, journalVars>>

\* onClick of a day cell of either month shown.
clickRangeDay ==
    /\ variant = "range"
    /\ rangePickerOpen
    /\ \E date \in generateCalendarMatrix(rangeMonth)
                    \cup generateCalendarMatrix(rangeMonthNext) :
          LET normalized == startOfDay(date)
          IN  /\ date - mountDay \in ClickOffsets
              /\ rangeSelection' =
                    IF rangeSelection.start = null
                       \/ (rangeSelection.start # null /\ rangeSelection.end # null)
                    THEN Range(normalized, null)
                    ELSE IF normalized < rangeSelection.start
                    THEN Range(normalized, rangeSelection.start)
                    ELSE IF normalized = rangeSelection.start
                    THEN Range(normalized, null)
                    ELSE Range(rangeSelection.start, normalized)
    /\ UNCHANGED <<now, mountDay, quickRangePresets, trades, filters, dateRange,
                   rangePickerOpen, rangeMonth, selectedPeriod, search, variant, journalVars>>

\* Mutant of finalRangeOf: with no end picked, the end is the picked start,
\* unclamped.
BadFinalRangeOf(selection) ==
    LET today == startOfDay(now)
        start == IF selection.start > today THEN today ELSE selection.start
        end   == IF selection.end # null
                 THEN (IF selection.end > today THEN today ELSE selection.end)
                 ELSE selection.start
    IN  IF start > end THEN Range(end, end) ELSE Range(start, end)

finalRangeOf(selection) ==
    LET today == startOfDay(now)
        start == IF selection.start > today THEN today ELSE selection.start
        end   == IF selection.end # null
                 THEN (IF selection.end > today THEN today ELSE selection.end)
                 ELSE (IF selection.start > today THEN today ELSE selection.start)
    IN  IF start > end THEN Range(end, end) ELSE Range(start, end)

applyRangeSelection ==
    /\ variant = "range"
    /\ rangePickerOpen
    /\ IF rangeSelection.start = null
       THEN UNCHANGED <<dateRange, rangePickerOpen>>
       ELSE /\ dateRange' = finalRangeOf(rangeSelection)
            /\ rangePickerOpen' = FALSE
    /\ UNCHANGED <<now, mountDay, quickRangePresets, trades, filters, rangeSelection, rangeMonth,
                   selectedPeriod, search, variant, journalVars>>

clearRangeSelection ==
    /\ variant = "range"
    /\ rangePickerOpen
    /\ dateRange' = Range(null, null)
    /\ rangeSelection' = Range(null, null)
    /\ rangeMonth' = MonthOf(startOfDay(now))
    /\ rangePickerOpen' = FALSE
    /\ UNCHANGED <<now, mountDay, quickRangePresets, trades, filters, selectedPeriod, search, variant, journalVars>>

quickRangeOf(label) ==
    LET range == quickRangePresets[label]
    IN  Range(IF range.start # null THEN clampToToday(startOfDay(range.start)) ELSE null,
              IF range.end # null THEN clampToToday(startOfDay(range.end)) ELSE null)

handleQuickRange ==
    /\ variant = "range"
    /\ rangePickerOpen
    /\ \E label \in QuickLabels :
          LET range  == quickRangeOf(label)
              anchor == IF range.end # null THEN range.end
                        ELSE IF range.start # null THEN range.start
                        ELSE startOfDay(now)
          IN  /\ dateRange' = range
              /\ rangeSelection' = range
              /\ rangeMonth' = MonthOf(anchor)
    /\ rangePickerOpen' = FALSE
    /\ UNCHANGED <<now, mountDay, quickRangePresets, trades, filters, selectedPeriod, search, variant, journalVars>>

\* Period variant: the period select and the search box.
setSelectedPeriod ==
    /\ variant = "period"
    /\ \E value \in Periods : selectedPeriod' = value
    /\ UNCHANGED <<now, mountDay, quickRangePresets, trades, filters, dateRange, rangeSelection,
                   rangePickerOpen, rangeMonth, search, variant, journalVars>>

setSearch ==
    /\ variant = "period"
    /\ \E value \in SearchChoices : search' = value
    /\ UNCHANGED <<now, mountDay, quickRangePresets, trades, filters, dateRange, rangeSelection,
                   rangePickerOpen, rangeMonth, selectedPeriod, variant, journalVars>>

-----------------------------------------------------------------------------
(* The trade form and the trade log of the date-range variant.              *)

\* Everything the form and the log handlers leave alone, but the trades.
engineVars == <<now, mountDay, quickRangePresets, filters, dateRange, rangeSelection,
                rangePickerOpen, rangeMonth, selectedPeriod, search, variant>>

\* The two "Add Trade" buttons.
openAddForm ==
    /\ variant = "range"
    /\ showAddForm' = TRUE
    /\ UNCHANGED <<engineVars, trades, editingTrade, formData, selectedMonth, monthOptions, dateNow>>

\* onChange of the date, time, side and instrument inputs of the form.
setFormDate ==
    /\ variant = "range"
    /\ showAddForm
    /\ \E value \in FormDates : formData' = [formData EXCEPT !.date = value]
    /\ UNCHANGED <<engineVars, trades, showAddForm, editingTrade, selectedMonth, monthOptions, dateNow>>

setFormTime ==
    /\ variant = "range"
    /\ showAddForm
    /\ \E value \in FormTimes : formData' = [formData EXCEPT !.time = value]
    /\ UNCHANGED <<engineVars, trades, showAddForm, editingTrade, selectedMonth, monthOptions, dateNow>>

setFormSide ==
    /\ variant = "range"
    /\ showAddForm
    /\ \E value \in FormSides : formData' = [formData EXCEPT !.side = value]
    /\ UNCHANGED <<engineVars, trades, showAddForm, editingTrade, selectedMonth, monthOptions, dateNow>>

setFormInstrument ==
    /\ variant = "range"
    /\ showAddForm
    /\ \E value \in Instruments : formData' = [formData EXCEPT !.instrument = value]
    /\ UNCHANGED <<engineVars, trades, showAddForm, editingTrade, selectedMonth, monthOptions, dateNow>>

\* The adjusted riskReward text handleResultChange puts in the form.
adjustedRiskReward(value, prevRiskReward) ==
    LET currentValue == Number(prevRiskReward)
    IN  IF value = "loss" THEN <<"-", "1">>
        ELSE IF currentValue = JSNaN THEN prevRiskReward
        ELSE NumberToString(Abs(currentValue.n))

handleResultChange ==
    /\ variant = "range"
    /\ showAddForm
    /\ \E value \in Results :
          formData' = [formData EXCEPT !.result = value,
                                       !.riskReward = adjustedRiskReward(value, @)]
    /\ UNCHANGED <<engineVars, trades, showAddForm, editingTrade, selectedMonth, monthOptions, dateNow>>

\* onChange of the riskReward input, which is disabled while the result is
\* a loss, and of the profitLoss input.
setFormRiskReward ==
    /\ variant = "range"
    /\ showAddForm
    /\ formData.result # "loss"
    /\ \E value \in FormRiskRewards : formData' = [formData EXCEPT !.riskReward = value]
    /\ UNCHANGED <<engineVars, trades, showAddForm, editingTrade, selectedMonth, monthOptions, dateNow>>

setFormProfitLoss ==
    /\ variant = "range"
    /\ showAddForm
    /\ \E value \in FormProfitLosses : formData' = [formData EXCEPT !.profitLoss = value]
    /\ UNCHANGED <<engineVars, trades, showAddForm, editingTrade, selectedMonth, monthOptions, dateNow>>

\* Mutant of signedProfitLoss: the amount is stored as typed.
BadSignedProfitLoss(result, parsedProfitLoss) == parsedProfitLoss

signedProfitLoss(result, parsedProfitLoss) ==
    IF result = "loss" THEN 0 - Abs(parsedProfitLoss) ELSE Abs(parsedProfitLoss)

normalizedRiskReward(result, parsedRiskReward) ==
    IF result = "loss" THEN -1 ELSE parsedRiskReward

\* newTrade of handleAddTrade, from the form and the two parsed numbers.
newTrade(form, parsedRiskReward, parsedProfitLoss) ==
    [ id         |-> dateNow,
      date       |-> form.date,
      time       |-> form.time,
      side       |-> form.side,
      instrument |-> form.instrument,
      result     |-> form.result,
      riskReward |-> normalizedRiskReward(form.result, parsedRiskReward),
      profitLoss |-> signedProfitLoss(form.result, parsedProfitLoss) ]

\* Mutant of replaceTrade: the replacement is moved to the end.
BadReplaceTrade(prev, editing, replacement) ==
    LET kept(trade) == trade.id # editing.id
    IN  IF \E i \in 1..Len(prev) : prev[i].id = editing.id
        THEN Append(SelectSeq(prev, kept), [replacement EXCEPT !.id = editing.id])
        ELSE prev

\* prev.map(trade => trade.id === editingTrade.id
\*                     ? {...newTrade, id: editingTrade.id} : trade)
replaceTrade(prev, editing, replacement) ==
    [ i \in 1..Len(prev) |->
        IF prev[i].id = editing.id THEN [replacement EXCEPT !.id = editing.id]
        ELSE prev[i] ]

\* handleAddTrade: a form with an empty field, or with a field that is not
\* a number, is answered with an alert and nothing is stored.
handleAddTrade ==
    /\ variant = "range"
    /\ showAddForm
    /\ LET parsedRiskReward == parseFloat(formData.riskReward)
           parsedProfitLoss == parseFloat(formData.profitLoss)
       IN  IF \/ formData.date = <<>> \/ formData.time = <<>>
              \/ formData.riskReward = <<>> \/ formData.profitLoss = <<>>
           THEN UNCHANGED <<trades, monthOptions, showAddForm, editingTrade, formData>>
           ELSE IF parsedRiskReward = JSNaN \/ parsedProfitLoss = JSNaN
           THEN UNCHANGED <<trades, monthOptions, showAddForm, editingTrade, formData>>
           ELSE /\ IF editingTrade # <<>>
                   THEN trades' = replaceTrade(trades, editingTrade[1],
                                      newTrade(formData, parsedRiskReward.n, parsedProfitLoss.n))
                   ELSE /\ Len(trades) < MaxJournal
                        /\ trades' = Append(trades,
                                      newTrade(formData, parsedRiskReward.n, parsedProfitLoss.n))
                /\ monthOptions' = buildMonthOptions(trades')
                /\ editingTrade' = <<>>
                /\ formData' = emptyForm
                /\ showAddForm' = FALSE
    /\ UNCHANGED <<engineVars, selectedMonth, dateNow>>

\* The form handleEditTrade fills from a trade of the log.
editForm(trade) ==
    [ date       |-> trade.date,
      time       |-> trade.time,
      side       |-> trade.side,
      instrument |-> trade.instrument,
      result     |-> trade.result,
      riskReward |-> IF trade.result = "loss" THEN <<"-", "1">>
                     ELSE NumberToString(trade.riskReward),
      profitLoss |-> IF "profitLoss" \in DOMAIN trade
                     THEN NumberToString(Abs(trade.profitLoss)) ELSE <<>> ]

\* The Edit button of a row of the trade log, which lists filteredTrades.
\* The form is an overlay, not a dialog that takes the rest of the page out
\* of use: the rows under it still answer the keyboard.
handleEditTrade ==
    /\ variant = "range"
    /\ \E i \in 1..Len(filteredTrades) :
          /\ editingTrade' = <<filteredTrades[i]>>
          /\ formData' = editForm(filteredTrades[i])
    /\ showAddForm' = TRUE
    /\ UNCHANGED <<engineVars, trades, selectedMonth, monthOptions, dateNow>>

\* prev.filter(trade => trade.id !== id)
removeTrade(prev, id) ==
    LET kept(trade) == trade.id # id
    IN  SelectSeq(prev, kept)

\* The Delete button of a row of the trade log; window.confirm answers.
handleDeleteTrade ==
    /\ variant = "range"
    /\ \E i \in 1..Len(filteredTrades) : \E confirmed \in BOOLEAN :
          IF confirmed
          THEN /\ trades' = removeTrade(trades, filteredTrades[i].id)
               /\ monthOptions' = buildMonthOptions(trades')
          ELSE UNCHANGED <<trades, monthOptions>>
    /\ UNCHANGED <<engineVars, showAddForm, editingTrade, formData, selectedMonth, dateNow>>

cancelForm ==
    /\ variant = "range"
    /\ showAddForm
    /\ showAddForm' = FALSE
    /\ editingTrade' = <<>>
    /\ formData' = emptyForm
    /\ UNCHANGED <<engineVars, trades, selectedMonth, monthOptions, dateNow>>

\* A millisecond passes.
Elapse ==
    /\ dateNow < MaxClock
    /\ dateNow' = dateNow + 1
    /\ UNCHANGED <<engineVars, trades, showAddForm, editingTrade, formData, selectedMonth,
                   monthOptions>>

\* currentMonthStart is built once, at the mount (useMemo with no
\* dependency); earliestAvailableMonth is the date of the last option.
currentMonthStart == NewDate(getFullYear(mountDay), getMonth(mountDay), 1)

earliestAvailableMonth ==
    IF Len(monthOptions) = 0 THEN null ELSE monthOptions[Len(monthOptions)]

\* The two arrows of the calendar: handleMonthChange(-1), handleMonthChange(1).
handleMonthChange ==
    /\ variant = "range"
    /\ \E offset \in {-1, 1} :
          \E next \in { NewDate(getFullYear(selectedMonth), getMonth(selectedMonth) + offset, 1) } :
             selectedMonth' =
                 IF next > currentMonthStart THEN selectedMonth
                 ELSE IF earliestAvailableMonth # null /\ next < earliestAvailableMonth
                      THEN selectedMonth
                 ELSE next
    /\ UNCHANGED <<engineVars, trades, showAddForm, editingTrade, formData, monthOptions, dateNow>>

\* The month select: its value is the key of one of the options.
handleMonthSelect ==
    /\ variant = "range"
    /\ \E k \in 1..Len(monthOptions) :
          \E value \in { optionKey(monthOptions[k]) } :
          \E target \in { NewDate(value[1], value[2], 1) } :
             selectedMonth' =
                 IF target > currentMonthStart THEN currentMonthStart
                 ELSE IF earliestAvailableMonth # null /\ target < earliestAvailableMonth
                      THEN earliestAvailableMonth
                 ELSE target
    /\ UNCHANGED <<engineVars, trades, showAddForm, editingTrade, formData, monthOptions, dateNow>>

\* The journal of the date-range variant, empty at the mount, driven
\* through its form and its trade log; the side and the instrument are
\* left as the form offers them.
InitJournal ==
    /\ mountDay = EngineDay
    /\ variant = "range"
    /\ trades = <<>>
    /\ InitCommon

NextJournal ==
    \/ openAddForm
    \/ setFormDate
    \/ setFormTime
    \/ handleResultChange
    \/ setFormRiskReward
    \/ setFormProfitLoss
    \/ handleAddTrade
    \/ handleEditTrade
    \/ handleDeleteTrade
    \/ cancelForm
    \/ Elapse

SpecJournal == InitJournal /\ [][NextJournal]_vars

\* The calendar and the trade log of the date-range variant over a stored
\* journal that holds a trade of thirteen months ago: the months are paged
\* and picked, the range is cleared, the instrument is filtered, and trades
\* of the log are deleted.
CalendarJournals ==
    LET recent == formatDateKey(EngineDay)
        old    == formatDateKey(NewDate(getFullYear(EngineDay), getMonth(EngineDay) - 13, 14))
    IN  { << Trade(1, recent, <<9, 44>>, "NQ!",  "win",  2,  100),
             Trade(2, old,    <<9, 44>>, "ES1!", "loss", -1, -50) >>,
          << Trade(1, old,    <<9, 44>>, "NQ!",  "win",  2,  100),
             Trade(2, recent, <<9, 44>>, "ES1!", "loss", -1, -50),
             Trade(3, recent, <<9, 0>>,  "NQ!",  "win",  1,  40) >> }

InitCalendar ==
    /\ mountDay = EngineDay
    /\ variant = "range"
    /\ \E savedTrades \in CalendarJournals : trades = loadTrades(savedTrades)
    /\ InitCommon

NextCalendar ==
    \/ handleMonthChange
    \/ handleMonthSelect
    \/ setInstrumentFilter
    \/ toggleRangePicker
    \/ clearRangeSelection
    \/ handleDeleteTrade

SpecCalendar == InitCalendar /\ [][NextCalendar]_vars

\* The engine over a stored journal: each variant of App, mounted on the
\* engine day with a journal read from localStorage, driven through its
\* filters and its presets.
InitEngine ==
    /\ mountDay = EngineDay
    /\ variant \in {"range", "period", "earlier"}
    /\ \E savedTrades \in StoredCollections(MaxTrades) :
          trades = IF variant = "earlier" THEN loadTradesEarlier(savedTrades)
                   ELSE loadTrades(savedTrades)
    /\ InitCommon

NextEngine ==
    \/ setTimeRangeFilter
    \/ setDayOfWeekFilter
    \/ setInstrumentFilter
    \/ toggleRangePicker
    \/ handleQuickRange
    \/ clearRangeSelection
    \/ setSelectedPeriod
    \/ setSearch

SpecEngine == InitEngine /\ [][NextEngine]_vars

\* The range picker of the date-range variant over an empty journal, with
\* the clock running.
InitRange ==
    /\ mountDay \in MountDays
    /\ variant = "range"
    /\ trades = <<>>
    /\ InitCommon

NextRange ==
    \/ Tick
    \/ setTimeRangeFilter
    \/ setDayOfWeekFilter
    \/ setInstrumentFilter
    \/ toggleRangePicker
    \/ mousedownOutside
    \/ pageRangeMonth
    \/ clickRangeDay
    \/ applyRangeSelection
    \/ clearRangeSelection
    \/ handleQuickRange

SpecRange == InitRange /\ [][NextRange]_vars

-----------------------------------------------------------------------------
(* Vocabulary of the properties.                                            *)

Min(a, b) == IF a < b THEN a ELSE b

Elements(seq) == { seq[i] : i \in 1..Len(seq) }
DatedIndices == { i \in 1..Len(trades) : trades[i].date # <<>> }

\* The subsequence of trades at the indices K, in collection order.
NthIndex(K, j) == CHOOSE i \in K : Cardinality({ x \in K : x <= i }) = j
SubseqAt(K) == [ j \in 1..Cardinality(K) |-> trades[NthIndex(K, j)] ]

\* The filtered set and the metrics of the variant that is running.
CurrentFiltered ==
    CASE variant = "range"  -> filteredTrades
      [] variant = "period" -> filteredTradesPeriod
      [] OTHER              -> filteredTradesEarlier

CurrentMetrics ==
    CASE variant = "range"  -> metrics
      [] variant = "period" -> metricsPeriod
      [] OTHER              -> metricsEarlier

\* The positions of the collection whose trade (ids are distinct) is a
\* member of the filtered set.
KeptIndices == { i \in 1..Len(trades) : trades[i] \in Elements(CurrentFiltered) }

\* The active range as an interval of day numbers: the date range of the
\* date-range variant; from the period start on, with no upper end, in the
\* period variant.
ActiveStart == IF variant = "range" THEN dateRange.start
               ELSE getPeriodStartDate(selectedPeriod)
ActiveEnd   == IF variant = "range" THEN dateRange.end ELSE null

DateInActiveRange(trade) ==
    LET d == parseISODate(trade.date)
    IN  /\ (ActiveStart = null \/ ActiveStart <= d)
        /\ (ActiveEnd = null \/ d <= ActiveEnd)

MatchesSelects(trade) ==
    /\ filters.timeRange = "all" \/ getTimeRange(trade.time) = filters.timeRange
    /\ filters.dayOfWeek = "all" \/ getDayOfWeek(trade.date) = filters.dayOfWeek
    /\ filters.instrument = "all" \/ trade.instrument = filters.instrument

MatchesSearch(trade) ==
    variant = "period" /\ search # "" => Includes(trade.instrument, search)

\* Reading a string of toFixed(2) back: a sign, digits, a point, two digits.
Unsigned(str) == IF str # <<>> /\ str[1] = "-" THEN Tail(str) ELSE str

WellFormed2(str) ==
    LET body == Unsigned(str)
    IN  /\ Len(body) >= 4
        /\ body[Len(body) - 2] = "."
        /\ \A i \in 1..Len(body) : i # Len(body) - 2 => DigitValue(body[i]) >= 0

\* The value of a well-formed string, in hundredths.
Hundredths(str) ==
    LET body == Unsigned(str)
        magnitude == 100 * DigitsValue(SubSeq(body, 1, Len(body) - 3))
                     + DigitsValue(SubSeq(body, Len(body) - 1, Len(body)))
    IN  IF str[1] = "-" THEN 0 - magnitude ELSE magnitude

-----------------------------------------------------------------------------
-----------------------------------------------------------------------------
(* C2.  In the range filter a trade with no date is excluded whenever the   *)
(* active range has a start or an end, and is included when the range is    *)
(* unbounded (all time).                                                    *)
RangeFiltered ==
    IF variant = "range" THEN rangeFilteredTrades ELSE periodFilteredTrades

C2_UndatedByBound ==
    variant \in {"range", "period"} =>
        \A i \in 1..Len(trades) :
            trades[i].date = <<>> =>
                (trades[i] \in Elements(RangeFiltered)
                     <=> (ActiveStart = null /\ ActiveEnd = null))

\* The part of C2 the date-range variant keeps: under a bound an undated
\* trade is excluded.
C2_ExcludedUnderBound ==
    variant \in {"range", "period"} =>
        \A i \in 1..Len(trades) :
            trades[i].date = <<>> /\ (ActiveStart # null \/ ActiveEnd # null)
                => trades[i] \notin Elements(RangeFiltered)

-----------------------------------------------------------------------------
(* C3.  After any sequence of range operations the active dateRange is      *)
(* unbounded on both ends or has start <= end <= today; every quick preset  *)
(* is applied normalized, and a preset whose calendar period ends after     *)
(* today is applied with its end clamped to today.                          *)
RangeNormal(range) ==
    \/ range.start = null /\ range.end = null
    \/ /\ range.start # null
       /\ range.end # null
       /\ range.start <= range.end
       /\ range.end <= startOfDay(now)

C3_RangeNormalized ==
    /\ RangeNormal(dateRange)
    /\ \A label \in QuickLabels :
          /\ RangeNormal(quickRangeOf(label))
          /\ (getQuickRanges(label).end # null
              /\ getQuickRanges(label).end > startOfDay(now))
                 => quickRangeOf(label).end = startOfDay(now)

\* This Week, whose Saturday is still to come, has been applied: the
\* active range runs from Sunday to today.
C3_Witness ==
    /\ ~rangePickerOpen
    /\ getQuickRanges("This Week").end > startOfDay(now)
    /\ dateRange = Range(getQuickRanges("This Week").start, startOfDay(now))
    /\ dateRange # defaultRange
    /\ dateRange.start < dateRange.end

-----------------------------------------------------------------------------
(* C4.  applyRangeSelection on a picked selection sets the active range to  *)
(* start' = min(start, today), end' = min(end, today), the end taken equal  *)
(* to the start when none was picked, and then start' := end' if            *)
(* start' > end'; a selection that starts tomorrow yields today..today.     *)
C4_Expected(selection) ==
    LET today  == startOfDay(now)
        start1 == Min(selection.start, today)
        end0   == IF selection.end = null THEN selection.start ELSE selection.end
        end1   == Min(end0, today)
    IN  Range(IF start1 > end1 THEN end1 ELSE start1, end1)

C4_ApplyClamps ==
    [][ (applyRangeSelection /\ rangeSelection.start # null) =>
            /\ dateRange' = C4_Expected(rangeSelection)
            /\ rangeSelection.start = startOfDay(now) + 1
                  => dateRange' = Range(startOfDay(now), startOfDay(now)) ]_vars

\* The day after the mount a selection starting tomorrow has been applied:
\* no preset (all computed on the mount day) yields today..today then.
C4_Witness ==
    /\ now = mountDay + 1
    /\ ~rangePickerOpen
    /\ rangeSelection.start = startOfDay(now) + 1
    /\ dateRange = Range(startOfDay(now), startOfDay(now))

-----------------------------------------------------------------------------
(* C5.  wins + losses <= total; winRate is wins / total * 100 rounded to    *)
(* two decimals, lies in [0, 100], and is "0.00" when total = 0.            *)
C5_WinRate ==
    variant \in {"range", "period"} =>
        LET m     == CurrentMetrics
            set   == CurrentFiltered
            wins  == Cardinality({ i \in 1..Len(set) : set[i].result = "win" })
            total == Len(set)
        IN  /\ m.wins = wins
            /\ m.total = total
            /\ m.wins + m.losses <= m.total
            /\ m.winRate.t = "string"
            /\ WellFormed2(m.winRate.s)
            /\ Hundredths(m.winRate.s) >= 0
            /\ Hundredths(m.winRate.s) <= 10000
            /\ total > 0 =>
                  2 * Abs(Hundredths(m.winRate.s) * total - 10000 * wins) <= total
            /\ total = 0 => m.winRate.s = Zero2

\* A time filter is set and keeps one win and one loss: 50.00.
C5_Witness ==
    /\ variant = "range"
    /\ filters.timeRange # "all"
    /\ metrics.total = 2
    /\ metrics.wins = 1
    /\ metrics.losses = 1
    /\ metrics.winRate = JSString(<<"5", "0", ".", "0", "0">>)

-----------------------------------------------------------------------------
(* C6.  profitFactor is never negative, and when totalLossRR = 0 it is one  *)
(* of the fallback values (the infinite sentinel or "0.00").                *)
IsNegative(value) ==
    \/ value.t = "number" /\ value.n < 0
    \/ value.t = "string" /\ value.s # <<>> /\ value.s[1] = "-"

C6_ProfitFactorSign ==
    variant = "range" =>
        /\ ~IsNegative(metrics.profitFactor)
        /\ totalLossRR(filteredTrades) = 0
              => metrics.profitFactor \in {JSString(Infinite), JSString(Zero2)}

\* The half of C6 the code keeps: the fallback when totalLossRR = 0.
C6_Fallback ==
    variant = "range" =>
        (totalLossRR(filteredTrades) = 0
            => metrics.profitFactor \in {JSString(Infinite), JSString(Zero2)})

-----------------------------------------------------------------------------
(* C7.  Whenever the filtered set is non-empty and holds only wins, the     *)
(* profitFactor is the infinite sentinel.                                   *)
C7_AllWinsInfinite ==
    (/\ variant = "range"
     /\ Len(filteredTrades) > 0
     /\ \A i \in 1..Len(filteredTrades) : filteredTrades[i].result = "win")
        => metrics.profitFactor = JSString(Infinite)

-----------------------------------------------------------------------------
(* C8.  When the filtered set is empty the metrics snapshot is              *)
(* winRate = "0.00", profitFactor = "0.00", avgRR = "0.00", netPnL = 0.     *)
EmptySnapshot(m) ==
    /\ m.winRate = JSString(Zero2)
    /\ m.profitFactor = JSString(Zero2)
    /\ m.avgRR = JSString(Zero2)
    /\ m.netPnL = JSNumber(0)

C8_EmptySnapshot ==
    Len(CurrentFiltered) = 0 => EmptySnapshot(CurrentMetrics)

\* C8 in the date-range and period variants alone.
C8_EmptySnapshotCurrent ==
    (variant \in {"range", "period"} /\ Len(CurrentFiltered) = 0)
        => EmptySnapshot(CurrentMetrics)

-----------------------------------------------------------------------------
(* C9.  For an empty trade collection, under any filter and any active      *)
(* range (the default range included), the daily series has exactly one     *)
(* entry, dated today, with pnl = 0 and cumulative = 0.                     *)
C9_AsClaimed ==
    (variant = "range" /\ trades = <<>>) =>
        /\ Len(cumulativePnLData) = 1
        /\ cumulativePnLData[1].date = formatDateKey(startOfDay(now))
        /\ cumulativePnLData[1].pnl = 0
        /\ cumulativePnLData[1].cumulative = 0

\* C9, amended.  For an empty trade collection, under any filter, every
\* entry of the daily series has pnl = 0 and cumulative = 0; the series is
\* the single entry dated today when the active range is unbounded or is
\* the single day today; under a bounded range it has one entry per day of
\* the range, 30 under the default range.
C9_EmptyJournalSeries ==
    (variant = "range" /\ trades = <<>>) =>
        LET series == cumulativePnLData
            today  == startOfDay(now)
        IN  /\ \A i \in 1..Len(series) : series[i].pnl = 0 /\ series[i].cumulative = 0
            /\ (dateRange = Range(null, null) \/ dateRange = Range(today, today))
                  => /\ Len(series) = 1
                     /\ series[1].date = formatDateKey(today)
            /\ dateRange.start # null
                  => /\ Len(series) = dateRange.end - dateRange.start + 1
                     /\ series[1].date = formatDateKey(dateRange.start)
                     /\ series[Len(series)].date = formatDateKey(dateRange.end)
            /\ dateRange = defaultRange => Len(series) = 30

\* All Time has been chosen over the empty journal, a filter is set, and
\* the series is today's single entry.
C9_Witness ==
    /\ variant = "range"
    /\ trades = <<>>
    /\ dateRange = Range(null, null)
    /\ filters.timeRange # "all"
    /\ Len(cumulativePnLData) = 1
    /\ cumulativePnLData[1].date = formatDateKey(startOfDay(now))

-----------------------------------------------------------------------------
(* C10.  The daily series has exactly one entry per calendar day from       *)
(* seriesStart to seriesEnd inclusive, in strictly increasing date order    *)
(* with no gap and no duplicate, so its length is seriesEnd - seriesStart   *)
(* in days, plus one.                                                       *)
Contiguous(series) ==
    \A i \in 1..(Len(series) - 1) :
        parseISODate(series[i + 1].date) = parseISODate(series[i].date) + 1

\* The series of the date-range variant, from cursor to endDate.
C10_DailySeries ==
    variant = "range" =>
        LET series == dailyPnLData
            bounds == seriesBounds
        IN  /\ Len(series) = bounds.endDate - bounds.cursor + 1
            /\ Len(series) >= 1
            /\ series[1].date = formatDateKey(bounds.cursor)
            /\ series[Len(series)].date = formatDateKey(bounds.endDate)
            /\ Contiguous(series)

\* The series of the period variant, from its first to its last date.
C10_PeriodSeries ==
    (variant = "period" /\ filteredTradesPeriod # <<>>) =>
        LET series == pnlData
        IN  \/ series = <<>>
            \/ /\ Len(series) = parseISODate(series[Len(series)].date)
                                 - parseISODate(series[1].date) + 1
                /\ Contiguous(series)

C10_OneEntryPerDay == C10_DailySeries /\ C10_PeriodSeries

-----------------------------------------------------------------------------
(* C11.  For every entry of the daily series, pnl is the sum of profitLoss  *)
(* over the filtered trades dated that day, and 0 for a day that has none.  *)
RECURSIVE SumProfitLossAt(_, _)
SumProfitLossAt(seq, K) ==
    IF K = {} THEN 0
    ELSE LET k == CHOOSE x \in K : TRUE
         IN  seq[k].profitLoss + SumProfitLossAt(seq, K \ {k})

TradesDated(seq, date) == { j \in 1..Len(seq) : seq[j].date = date }

C11_DailyPnL ==
    variant = "range" =>
        LET series == dailyPnLData
            set    == filteredTrades
        IN  \A i \in 1..Len(series) :
                /\ series[i].pnl = SumProfitLossAt(set, TradesDated(set, series[i].date))
                /\ TradesDated(set, series[i].date) = {} => series[i].pnl = 0

\* A preset other than the default range is applied: two filtered trades
\* of the engine day (100 and 150) make its entry 250, and the day before
\* it has no trade.
C11_Witness ==
    /\ variant = "range"
    /\ dateRange.start # null
    /\ dateRange # defaultRange
    /\ Len(filteredTrades) = 2
    /\ Len(dailyPnLData) >= 2
    /\ dailyPnLData[Len(dailyPnLData)].date = formatDateKey(EngineDay)
    /\ dailyPnLData[Len(dailyPnLData)].pnl = 250
    /\ dailyPnLData[Len(dailyPnLData) - 1].pnl = 0

-----------------------------------------------------------------------------
(* C12.  Each entry's cumulative is the sum of pnl over that entry and all  *)
(* earlier entries, the entries being in chronological order; the           *)
(* cumulative of the last entry is the sum of all pnl of the series.        *)
RECURSIVE PrefixPnl(_, _)
PrefixPnl(series, i) == IF i = 0 THEN 0 ELSE PrefixPnl(series, i - 1) + series[i].pnl

CurrentSeries == IF variant = "range" THEN cumulativePnLData ELSE pnlData

C12_RunningTotal ==
    variant \in {"range", "period"} =>
        LET series == CurrentSeries
        IN  /\ \A i \in 1..Len(series) : series[i].cumulative = PrefixPnl(series, i)
            /\ \A i \in 1..(Len(series) - 1) : KeyLess(series[i].date, series[i + 1].date)
            /\ Len(series) > 0 =>
                   series[Len(series)].cumulative = PrefixPnl(series, Len(series))

\* The period variant's series of two traded days under a period other
\* than 'all': the last cumulative is the sum of the two.
C12_Witness ==
    /\ variant = "period"
    /\ selectedPeriod # "all"
    /\ Len(pnlData) = 2
    /\ pnlData[1].pnl # 0
    /\ pnlData[2].pnl # 0
    /\ pnlData[2].cumulative = pnlData[1].pnl + pnlData[2].pnl

-----------------------------------------------------------------------------
(* C13.  The calendar index depends only on the trade collection: a change  *)
(* of the time-bucket, weekday or instrument filter, of the active date     *)
(* range, of the period or of the search term leaves it unchanged.          *)
C13_IndexUnfiltered ==
    [][ (variant \in {"range", "period"} /\ trades' = trades)
            => tradesByDate' = tradesByDate ]_vars

\* A time filter has dropped one of two dated trades from the filtered set
\* (the metrics count one trade), and the index still holds both.
C13_Witness ==
    /\ variant = "range"
    /\ filters.timeRange # "all"
    /\ Len(trades) = 2
    /\ DatedIndices = {1, 2}
    /\ metrics.total = 1
    /\ \A i \in 1..2 : trades[i] \in Elements(tradesByDate[trades[i].date].trades)

-----------------------------------------------------------------------------
(* C14.  The calendar index has a key for exactly the dates carried by at   *)
(* least one trade of the collection; for each, wins and losses count the   *)
(* win and loss trades of that date, profitLoss is the sum of their         *)
(* profitLoss and trades lists exactly those trades in collection order.    *)
CalendarIndex == IF variant = "earlier" THEN calendarData ELSE tradesByDate

IndexEntryOk(index, key) ==
    LET members == { j \in 1..Len(trades) : trades[j].date = key }
    IN  /\ index[key].wins = Cardinality({ j \in members : trades[j].result = "win" })
        /\ index[key].losses = Cardinality({ j \in members : trades[j].result = "loss" })
        /\ "profitLoss" \in DOMAIN index[key]
        /\ index[key].profitLoss = SumProfitLossAt(trades, members)
        /\ "trades" \in DOMAIN index[key]
        /\ index[key].trades = SubseqAt(members)

C14_CalendarIndex ==
    LET index == CalendarIndex
    IN  /\ DOMAIN index = { trades[i].date : i \in DatedIndices }
        /\ \A key \in DOMAIN index : IndexEntryOk(index, key)

\* C14 in the date-range and period variants alone.
C14_CalendarIndexCurrent ==
    variant \in {"range", "period"} => C14_CalendarIndex

-----------------------------------------------------------------------------
(* C15.  The time-bucket breakdown has exactly the five groups 9:30-9:45,   *)
(* 9:45-10:00, 10:00-10:15, 10:15-10:30, 10:30+ in that order; a group's    *)
(* trade count is the number of trades of the filtered set classified in    *)
(* that bucket, its winRate is wins / count * 100 to one decimal, and 0     *)
(* when the count is 0.                                                     *)
CurrentTimeRangeData ==
    CASE variant = "range"  -> timeRangeData
      [] variant = "period" -> timeRangeDataPeriod
      [] OTHER              -> timeRangeDataEarlier

CurrentBucket(trade) ==
    IF variant = "earlier" THEN getTimeRangeEarlier(trade.time) ELSE getTimeRange(trade.time)

\* A breakdown winRate in tenths of a percent.
Tenths(number) ==
    IF "tenths" \in DOMAIN number THEN 10 * number.n + number.tenths ELSE 10 * number.n

\* winRate is a number, the nearest tenth to wins / count * 100.
GroupRateOk(winRate, wins, count) ==
    /\ winRate.t = "number"
    /\ count = 0 => winRate = JSNumber(0)
    /\ count > 0 => 2 * Abs(Tenths(winRate) * count - 1000 * wins) <= count

C15_TimeBuckets ==
    LET data == CurrentTimeRangeData
        set  == CurrentFiltered
    IN  /\ Len(data) = 5
        /\ [k \in 1..5 |-> data[k].range] =
              <<"9:30-9:45", "9:45-10:00", "10:00-10:15", "10:15-10:30", "10:30+">>
        /\ \A k \in 1..5 :
              LET members == { j \in 1..Len(set) : CurrentBucket(set[j]) = data[k].range }
                  wins    == { j \in members : set[j].result = "win" }
              IN  /\ data[k].trades = Cardinality(members)
                  /\ GroupRateOk(data[k].winRate, Cardinality(wins), Cardinality(members))

\* C15 in the date-range and period variants alone.
C15_TimeBucketsCurrent ==
    variant \in {"range", "period"} => C15_TimeBuckets

-----------------------------------------------------------------------------
(* C16.  The weekday breakdown has exactly the five groups Monday to        *)
(* Friday in that order, each counting the filtered trades dated on that    *)
(* weekday; a trade dated on a Saturday or Sunday is counted in no group;   *)
(* a group's winRate is 0 when its count is 0.                              *)
CurrentDayData ==
    CASE variant = "range"  -> dayData
      [] variant = "period" -> dayDataPeriod
      [] OTHER              -> dayDataEarlier

\* The weekday of a date string, Sunday = 0; none for an undated trade.
WeekdayIndex(date) == IF date = <<>> THEN -1 ELSE getDay(parseISODate(date))

C16_Weekdays ==
    LET data == CurrentDayData
        set  == CurrentFiltered
    IN  /\ Len(data) = 5
        /\ [k \in 1..5 |-> data[k].day] =
              <<"Monday", "Tuesday", "Wednesday", "Thursday", "Friday">>
        /\ \A k \in 1..5 :
              LET members == { j \in 1..Len(set) : WeekdayIndex(set[j].date) = k }
                  wins    == { j \in members : set[j].result = "win" }
              IN  /\ data[k].trades = Cardinality(members)
                  /\ GroupRateOk(data[k].winRate, Cardinality(wins), Cardinality(members))
        /\ data[1].trades + data[2].trades + data[3].trades + data[4].trades
              + data[5].trades
              = Cardinality({ j \in 1..Len(set) : WeekdayIndex(set[j].date) \in 1..5 })

\* C16 in the date-range and period variants alone.
C16_WeekdaysCurrent ==
    variant \in {"range", "period"} => C16_Weekdays

-----------------------------------------------------------------------------
(* C17.  The instrument breakdown has exactly one entry per distinct        *)
(* instrument of the whole trade collection; wins, losses and pnl of an     *)
(* entry are computed over the filtered trades of that instrument; an       *)
(* instrument with no filtered trade has wins = 0, losses = 0,              *)
(* winRate = "0.0" and pnl = 0.                                             *)
CurrentInstrumentData ==
    CASE variant = "range"  -> instrumentData
      [] variant = "period" -> instrumentDataPeriod
      [] OTHER              -> instrumentDataEarlier

C17_Instruments ==
    LET data == CurrentInstrumentData
        set  == CurrentFiltered
        all  == { trades[i].instrument : i \in 1..Len(trades) }
    IN  /\ Len(data) = Cardinality(all)
        /\ { data[k].instrument : k \in 1..Len(data) } = all
        /\ \A k \in 1..Len(data) :
              LET members == { j \in 1..Len(set) : set[j].instrument = data[k].instrument }
                  wins    == Cardinality({ j \in members : set[j].result = "win" })
                  losses  == Cardinality({ j \in members : set[j].result = "loss" })
              IN  /\ data[k].wins = wins
                  /\ data[k].losses = losses
                  /\ "pnl" \in DOMAIN data[k]
                  /\ data[k].pnl = SumProfitLossAt(set, members)
                  /\ data[k].winRate.t = "string"
                  /\ members = {} =>
                        /\ data[k].wins = 0
                        /\ data[k].losses = 0
                        /\ data[k].winRate = JSString(<<"0", ".", "0">>)
                        /\ data[k].pnl = 0
                  /\ members # {} =>
                        data[k].winRate = JSString(toFixed(wins * 100, Cardinality(members), 1))

\* C17 in the date-range and period variants alone.
C17_InstrumentsCurrent ==
    variant \in {"range", "period"} => C17_Instruments

-----------------------------------------------------------------------------
(* C18.  getTimeRange maps a time of m minutes since midnight to 9:30-9:45  *)
(* for 570 <= m < 585, 9:45-10:00 for 585 <= m < 600, 10:00-10:15 for       *)
(* 600 <= m < 615, 10:15-10:30 for 615 <= m < 630 and 10:30+ for every      *)
(* other m; an absent or empty time maps to 'unknown', which is no value    *)
(* of the time filter, so such a trade passes only the 'all' time filter.   *)
SelectableTimeRanges == {"all"} \cup { ranges[k] : k \in 1..Len(ranges) }

ExpectedBucket(m) ==
    IF 570 <= m /\ m < 585 THEN "9:30-9:45"
    ELSE IF 585 <= m /\ m < 600 THEN "9:45-10:00"
    ELSE IF 600 <= m /\ m < 615 THEN "10:00-10:15"
    ELSE IF 615 <= m /\ m < 630 THEN "10:15-10:30"
    ELSE "10:30+"

\* The mapping of the date-range variant, over every minute of the day.
BucketTableOk ==
    \A h \in 0..23 : \A m \in 0..59 : getTimeRange(<<h, m>>) = ExpectedBucket(h * 60 + m)

\* The same for the earlier variant.
BucketTableEarlierOk ==
    \A h \in 0..23 : \A m \in 0..59 :
        getTimeRangeEarlier(<<h, m>>) = ExpectedBucket(h * 60 + m)

C18_TimeBucketMap ==
    /\ IF variant = "earlier" THEN BucketTableEarlierOk ELSE BucketTableOk
    /\ CurrentBucket([time |-> <<>>]) = "unknown"
    /\ "unknown" \notin SelectableTimeRanges
    /\ \A i \in 1..Len(trades) :
          (trades[i].time = <<>> /\ trades[i] \in Elements(CurrentFiltered))
              => filters.timeRange = "all"
    /\ \A j \in 1..Len(CurrentFiltered) :
          filters.timeRange # "all" => CurrentBucket(CurrentFiltered[j]) = filters.timeRange

\* C18 in the date-range and period variants alone.
C18_TimeBucketMapCurrent ==
    variant \in {"range", "period"} => C18_TimeBucketMap

-----------------------------------------------------------------------------
(* C19.  netPnL is the sum of profitLoss over every trade of the filtered   *)
(* set, wins and losses alike; a trade whose profitLoss is missing          *)
(* contributes 0, both when it is read by the sum and once the stored       *)
(* collection has been loaded.                                              *)
Contribution(trade) ==
    IF "profitLoss" \in DOMAIN trade THEN trade.profitLoss ELSE 0

RECURSIVE SumContributions(_, _)
SumContributions(seq, K) ==
    IF K = {} THEN 0
    ELSE LET k == CHOOSE x \in K : TRUE
         IN  Contribution(seq[k]) + SumContributions(seq, K \ {k})

\* The saved records that carry no profitLoss.
SavedWithoutProfitLoss ==
    { saved \in UNION { StoredTrades(id) : id \in 1..MaxTrades } :
        "profitLoss" \notin DOMAIN saved }

C19_NetPnL ==
    variant \in {"range", "period"} =>
        /\ CurrentMetrics.netPnL =
              JSNumber(SumContributions(CurrentFiltered, 1..Len(CurrentFiltered)))
        /\ \A i \in 1..Len(trades) : "profitLoss" \in DOMAIN trades[i]
        /\ \A saved \in SavedWithoutProfitLoss :
              /\ netPnLOf(<<saved>>) = JSNumber(0)
              /\ loadTrade(saved).profitLoss = 0
              /\ \A j \in 1..Len(CurrentFiltered) :
                    CurrentFiltered[j] = loadTrade(saved)
                        => Contribution(CurrentFiltered[j]) = 0

\* The filtered set of the date-range variant, under the 9:30-9:45 time
\* filter, holds a trade that was saved without profitLoss next to a losing
\* trade whose profitLoss is not zero.
C19_Witness ==
    /\ variant = "range"
    /\ filters.timeRange = "9:30-9:45"
    /\ Len(filteredTrades) = 2
    /\ \E j \in 1..2 : \E saved \in SavedWithoutProfitLoss :
          filteredTrades[j] = loadTrade(saved)
    /\ \E j \in 1..2 : IsLoss(filteredTrades[j]) /\ filteredTrades[j].profitLoss < 0
    /\ metrics.netPnL.n < 0

-----------------------------------------------------------------------------
(* C20.  avgRR is the sum of riskReward over every trade of the filtered    *)
(* set, wins and losses together, divided by the size of the set and        *)
(* rounded to two decimals; it is "0.00" when the set is empty.  When the   *)
(* set is one win of 2R and one loss of -1R, avgRR is "0.50", profitFactor  *)
(* is "2.00" and winRate is "50.00".                                        *)
RECURSIVE SumRiskRewardAt(_, _)
SumRiskRewardAt(seq, K) ==
    IF K = {} THEN 0
    ELSE LET k == CHOOSE x \in K : TRUE
         IN  seq[k].riskReward + SumRiskRewardAt(seq, K \ {k})

\* One win of 2R and one loss of -1R, in either order.
WinTwoLossOne(set) ==
    /\ Len(set) = 2
    /\ \E j, k \in 1..2 :
          /\ set[j].result = "win"  /\ set[j].riskReward = 2
          /\ set[k].result = "loss" /\ set[k].riskReward = -1

C20_AvgRR ==
    variant \in {"range", "period"} =>
        LET m     == CurrentMetrics
            set   == CurrentFiltered
            total == Len(set)
            sumRR == SumRiskRewardAt(set, 1..total)
        IN  /\ m.avgRR.t = "string"
            /\ WellFormed2(m.avgRR.s)
            /\ total > 0 =>
                  2 * Abs(Hundredths(m.avgRR.s) * total - 100 * sumRR) <= total
            /\ total = 0 => m.avgRR.s = Zero2
            /\ WinTwoLossOne(set) =>
                  /\ m.avgRR = JSString(<<"0", ".", "5", "0">>)
                  /\ m.profitFactor = JSString(<<"2", ".", "0", "0">>)
                  /\ m.winRate = JSString(<<"5", "0", ".", "0", "0">>)

\* An instrument filter is set and the filtered set of the date-range
\* variant is the win of 2R and the loss of -1R.
C20_Witness ==
    /\ variant = "range"
    /\ filters.instrument # "all"
    /\ WinTwoLossOne(filteredTrades)
    /\ metrics.avgRR = JSString(<<"0", ".", "5", "0">>)

-----------------------------------------------------------------------------
(* C23.  Under the presets mtd, 3m, 6m and ytd the period filter keeps      *)
(* exactly the trades dated from the period start to today, ends included,  *)
(* where the start is the first day of the current month, of the month 2    *)
(* or 5 months before it, or January 1 of the current year; under 'all' it  *)
(* keeps every trade.                                                       *)
\* The first day of the month `back` months before the month of today.
FirstOfMonthBefore(today, back) ==
    LET civil == CivilFromDays(today)
        index == civil[1] * 12 + (civil[2] - 1) - back
    IN  DaysFromCivil(index \div 12, (index % 12) + 1, 1)

ExpectedPeriodStart(period, today) ==
    CASE period = "mtd" -> FirstOfMonthBefore(today, 0)
      [] period = "3m"  -> FirstOfMonthBefore(today, 2)
      [] period = "6m"  -> FirstOfMonthBefore(today, 5)
      [] period = "ytd" -> DaysFromCivil(CivilFromDays(today)[1], 1, 1)

\* The trades the period filter keeps, as positions of the collection.
PeriodKept == { i \in 1..Len(trades) : trades[i] \in Elements(periodFilteredTrades) }

C23_PeriodFilter ==
    variant = "period" =>
        /\ periodFilteredTrades = SubseqAt(PeriodKept)
        /\ selectedPeriod = "all" => PeriodKept = 1..Len(trades)
        /\ selectedPeriod # "all" =>
              PeriodKept =
                { i \in DatedIndices :
                    /\ ExpectedPeriodStart(selectedPeriod, startOfDay(now))
                           <= parseISODate(trades[i].date)
                    /\ parseISODate(trades[i].date) <= startOfDay(now) }

\* C23 without the upper end: the trades dated on or after the period start.
C23_PeriodFilterFromStart ==
    variant = "period" =>
        /\ periodFilteredTrades = SubseqAt(PeriodKept)
        /\ selectedPeriod = "all" => PeriodKept = 1..Len(trades)
        /\ selectedPeriod # "all" =>
              PeriodKept =
                { i \in DatedIndices :
                    ExpectedPeriodStart(selectedPeriod, startOfDay(now))
                        <= parseISODate(trades[i].date) }

-----------------------------------------------------------------------------
(* C24.  The daily series runs from seriesStart to seriesEnd: the start and *)
(* the end of the active range when they are set, otherwise the earliest    *)
(* and the latest date of the filtered set, otherwise today; each is then   *)
(* clamped to today, and an end before the start becomes the start.         *)
FilteredDays ==
    { parseISODate(filteredTrades[j].date) :
        j \in { k \in 1..Len(filteredTrades) : filteredTrades[k].date # <<>> } }

Earliest(daySet) == CHOOSE d \in daySet : \A e \in daySet : d <= e
Latest(daySet)   == CHOOSE d \in daySet : \A e \in daySet : e <= d

ExpectedSeriesStart ==
    LET today == startOfDay(now)
        start == IF dateRange.start # null THEN dateRange.start
                 ELSE IF FilteredDays # {} THEN Earliest(FilteredDays)
                 ELSE today
    IN  Min(start, today)

ExpectedSeriesEnd ==
    LET today == startOfDay(now)
        end   == IF dateRange.end # null THEN dateRange.end
                 ELSE IF FilteredDays # {} THEN Latest(FilteredDays)
                 ELSE today
        clamped == Min(end, today)
    IN  IF clamped < ExpectedSeriesStart THEN ExpectedSeriesStart ELSE clamped

C24_SeriesSpan ==
    variant = "range" =>
        LET series == dailyPnLData
        IN  /\ Len(series) = ExpectedSeriesEnd - ExpectedSeriesStart + 1
            /\ series[1].date = formatDateKey(ExpectedSeriesStart)
            /\ series[Len(series)].date = formatDateKey(ExpectedSeriesEnd)

\* The range was cleared and the filtered set holds a trade dated before
\* today and one dated after it: the series runs from the first to today.
C24_Witness ==
    /\ variant = "range"
    /\ dateRange = Range(null, null)
    /\ FilteredDays # {}
    /\ Earliest(FilteredDays) < startOfDay(now)
    /\ Latest(FilteredDays) > startOfDay(now)
    /\ dailyPnLData[1].date = formatDateKey(Earliest(FilteredDays))
    /\ dailyPnLData[Len(dailyPnLData)].date = formatDateKey(startOfDay(now))

-----------------------------------------------------------------------------
(* C26.  As claimed: the cumulative value of the last entry of the daily    *)
(* series equals metrics.netPnL.                                            *)
LastCumulative == cumulativePnLData[Len(cumulativePnLData)].cumulative

C26_AsClaimed ==
    variant = "range" => LastCumulative = metrics.netPnL.n

(* C26, amended.  The cumulative value of the last entry of the daily       *)
(* series equals the sum of profitLoss over the trades of the filtered set  *)
(* that are dated no later than today; it equals metrics.netPnL whenever no *)
(* trade of the filtered set is dated after today.                          *)
DatedByToday ==
    { j \in 1..Len(filteredTrades) :
        /\ filteredTrades[j].date # <<>>
        /\ parseISODate(filteredTrades[j].date) <= startOfDay(now) }

C26_ChartMatchesCard ==
    variant = "range" =>
        /\ LastCumulative = SumProfitLossAt(filteredTrades, DatedByToday)
        /\ DatedByToday = 1..Len(filteredTrades) => LastCumulative = metrics.netPnL.n

\* The range was cleared; the filtered set holds a trade dated today and a
\* trade dated tomorrow, both with a profitLoss: the chart ends on the
\* first one's profitLoss, the card shows the sum of both.
C26_Witness ==
    /\ variant = "range"
    /\ dateRange = Range(null, null)
    /\ Len(filteredTrades) = 2
    /\ Cardinality(DatedByToday) = 1
    /\ \A j \in 1..2 : filteredTrades[j].profitLoss # 0
    /\ LastCumulative # metrics.netPnL.n
    /\ LastCumulative = SumProfitLossAt(filteredTrades, DatedByToday)

-----------------------------------------------------------------------------
(* C25.  When the picked range has start > end after both were clamped to   *)
(* today, applyRangeSelection makes the active range the single day         *)
(* start..start.                                                            *)
ClampedStart(selection) == Min(selection.start, startOfDay(now))
ClampedEnd(selection) ==
    IF selection.end # null THEN Min(selection.end, startOfDay(now))
    ELSE ClampedStart(selection)

C25_CollapseToStart ==
    [][ (/\ applyRangeSelection
         /\ rangeSelection.start # null
         /\ ClampedStart(rangeSelection) > ClampedEnd(rangeSelection))
            => dateRange' = Range(ClampedStart(rangeSelection),
                                  ClampedStart(rangeSelection)) ]_vars

\* The case of C25 does not arise: the day cells order a selection when it
\* is picked and the clamps keep the order, so no selection that is applied
\* has its clamped start after its clamped end.
C25_NeverInverted ==
    (rangeSelection.start # null /\ rangeSelection.end # null)
        => /\ rangeSelection.start <= rangeSelection.end
           /\ ClampedStart(rangeSelection) <= ClampedEnd(rangeSelection)

-----------------------------------------------------------------------------
(* C21.  Every trade stored through handleAddTrade, starting from an empty  *)
(* journal, has riskReward = -1 and profitLoss <= 0 when its result is      *)
(* loss, and profitLoss >= 0 when its result is win, whatever was typed in  *)
(* the form.                                                                *)
ResultConsistent(trade) ==
    /\ trade.result = "loss" => trade.riskReward = -1 /\ trade.profitLoss <= 0
    /\ trade.result = "win"  => trade.profitLoss >= 0

C21_ResultConsistency ==
    /\ \A i \in 1..Len(trades) : ResultConsistent(trades[i])
    /\ [][ handleAddTrade =>
              \A i \in 1..Len(trades') : ResultConsistent(trades'[i]) ]_vars

\* The journal holds a loss of 100, which was typed without a sign, and a
\* win of 50, which was typed as -50.
C21_Witness ==
    /\ Len(trades) = 2
    /\ \E i \in 1..2 : trades[i].result = "loss" /\ trades[i].profitLoss = -100
    /\ \E i \in 1..2 : trades[i].result = "win" /\ trades[i].profitLoss = 50

-----------------------------------------------------------------------------
(* C22.  After any sequence of add, edit and delete operations no two       *)
(* stored trades share an id: an id is read from the clock when a trade is  *)
(* created, an edit keeps the id of the edited trade, and an id that was    *)
(* given once (to a trade still stored or since deleted) is not given to a  *)
(* trade created later, so a step that adds a trade adds one whose id no    *)
(* stored trade carries.                                                    *)
StoredIds == { trades[i].id : i \in 1..Len(trades) }

C22_UniqueIds ==
    /\ \A i, j \in 1..Len(trades) : trades[i].id = trades[j].id => i = j
    /\ [][ (handleAddTrade /\ Len(trades') = Len(trades) + 1)
              => trades'[Len(trades')].id \notin StoredIds ]_vars
    /\ [][ (handleAddTrade /\ Len(trades') = Len(trades))
              => \A i \in 1..Len(trades) : trades'[i].id = trades[i].id ]_vars

\* The half of C22 that holds: an edit keeps every id in its place.
C22_EditKeepsIds ==
    [][ (handleAddTrade /\ Len(trades') = Len(trades))
          => \A i \in 1..Len(trades) : trades'[i].id = trades[i].id ]_vars

-----------------------------------------------------------------------------
(* C27.  A submit of the form in edit mode that is accepted (no field       *)
(* empty, both numbers parse) always leaves in the journal a trade that     *)
(* carries the submitted values under the id of the edited trade, also when *)
(* the edited trade was deleted between handleEditTrade and the submit.     *)
SubmittedTrade ==
    newTrade(formData, parseFloat(formData.riskReward).n,
                       parseFloat(formData.profitLoss).n)

AcceptedEdit ==
    /\ handleAddTrade
    /\ editingTrade # <<>>
    /\ editingTrade' = <<>>

C27_EditSubmitStores ==
    [][ AcceptedEdit
          => \E i \in 1..Len(trades') :
                 trades'[i] = [SubmittedTrade EXCEPT !.id = editingTrade[1].id] ]_vars

\* What holds of the code: the submitted values are stored when the edited
\* trade is still in the journal at the time of the submit.
C27_EditSubmitStoresIfPresent ==
    [][ (AcceptedEdit /\ editingTrade[1].id \in StoredIds)
          => \E i \in 1..Len(trades') :
                 trades'[i] = [SubmittedTrade EXCEPT !.id = editingTrade[1].id] ]_vars

-----------------------------------------------------------------------------
(* C28.  An accepted edit replaces exactly the records that carry the id of *)
(* the edited trade, each in its place and under that id, and leaves every  *)
(* other record and the order as they were; a confirmed delete removes      *)
(* exactly the records that carry the id of the chosen row and keeps the    *)
(* others in their order; a declined confirmation, a cancelled form and a   *)
(* submit with an empty or non-numeric field leave the collection as it is. *)
RECURSIVE Without(_, _)
Without(seq, id) ==
    IF seq = <<>> THEN <<>>
    ELSE IF Head(seq).id = id THEN Without(Tail(seq), id)
    ELSE <<Head(seq)>> \o Without(Tail(seq), id)

EditInPlace ==
    /\ Len(trades') = Len(trades)
    /\ \A i \in 1..Len(trades) :
          trades'[i] = IF trades[i].id = editingTrade[1].id
                       THEN [SubmittedTrade EXCEPT !.id = editingTrade[1].id]
                       ELSE trades[i]

RejectedSubmit ==
    /\ handleAddTrade
    /\ showAddForm'

C28_CrudTouchesOnlyItsRecord ==
    /\ [][ AcceptedEdit => EditInPlace ]_vars
    /\ [][ handleDeleteTrade
              => \/ trades' = trades
                 \/ \E i \in 1..Len(filteredTrades) :
                       trades' = Without(trades, filteredTrades[i].id) ]_vars
    /\ [][ (cancelForm \/ RejectedSubmit) => trades' = trades ]_vars

\* An edit of the first of two stored trades is about to be submitted with
\* values that differ from the stored ones; the second trade has another id.
C28_Witness ==
    /\ Len(trades) = 2
    /\ editingTrade # <<>>
    /\ showAddForm
    /\ trades[1].id = editingTrade[1].id
    /\ trades[2].id # editingTrade[1].id
    /\ formData.date # <<>> /\ formData.time # <<>>
    /\ formData.riskReward # <<>> /\ formData.profitLoss # <<>>
    /\ [SubmittedTrade EXCEPT !.id = trades[1].id] # trades[1]
    /\ ENABLED AcceptedEdit

-----------------------------------------------------------------------------
(* C29.  After month navigation and after a trade is added, edited or       *)
(* deleted, selectedMonth is never later than the current month and never   *)
(* earlier than the earliest available month, which is the earlier of the   *)
(* month of the earliest dated trade and the month eleven months before the *)
(* current one.                                                             *)
CurrentMonth == MonthOf(now)

EarliestOffered ==
    LET elevenBack == NewDate(getFullYear(CurrentMonth), getMonth(CurrentMonth) - 11, 1)
        months     == { MonthOf(parseISODate(trades[i].date)) : i \in DatedIndices }
    IN  IF \E m \in months : m < elevenBack
        THEN CHOOSE m \in months : \A other \in months : m <= other
        ELSE elevenBack

C29_SelectedMonthInBounds ==
    variant = "range" =>
        /\ selectedMonth <= CurrentMonth
        /\ selectedMonth >= EarliestOffered

\* What holds of the code: the month is never later than the current one,
\* and a step of the month arrows or of the month select leaves it within
\* the bounds.
C29_NavigationInBounds ==
    /\ (variant = "range" => selectedMonth <= CurrentMonth)
    /\ [][ (handleMonthChange \/ handleMonthSelect) /\ selectedMonth' # selectedMonth
              => selectedMonth' >= EarliestOffered /\ selectedMonth' <= CurrentMonth ]_vars

-----------------------------------------------------------------------------
(* C30.  After a trade is added, edited or deleted and after a change of    *)
(* the filters, the instrument filter is 'all' or an instrument that occurs *)
(* in the current trades.                                                   *)
C30_InstrumentFilterOffered ==
    variant = "range" =>
        \/ filters.instrument = "all"
        \/ \E i \in 1..Len(trades) : trades[i].instrument = filters.instrument

\* What holds of the code: a change of the instrument select picks one of
\* the options of the moment.
C30_SelectPicksAnOption ==
    [][ setInstrumentFilter
          => \/ filters'.instrument = "all"
             \/ \E i \in 1..Len(trades) : trades[i].instrument = filters'.instrument ]_vars

====
